---- MODULE Spec2Model ----
(***************************************************************************)
(* Model of the bankan board repository (src/src/stores/boardsStore.ts):   *)
(* the Pinia store that keeps an in-memory tree of boards, lists and cards *)
(* synchronised with three database tables through asynchronous calls.     *)
(*                                                                         *)
(* Every store operation is an async function.  It is modelled as          *)
(*   - a call action (the synchronous prefix up to the first await, which  *)
(*     builds and issues the request),                                     *)
(*   - a database action (the backing store serves the request, or fails), *)
(*   - a resume action (the continuation after the await).                 *)
(* Timestamps (new Date().toISOString(), the database's now()) are read    *)
(* from one clock `now`; ISO-8601 strings order like the instants they     *)
(* denote, so they are modelled by the integer instant.                    *)
(***************************************************************************)
EXTENDS Integers, Sequences, FiniteSets, TLC

\* ---------------------------------------------------------------- bounds
MaxBoards == 1      \* boards the database ever creates (ids 1..MaxBoards)
MaxItems  == 2      \* lists and cards, together, ever created under Spec
MaxOrderItems == 3  \* lists and cards, together, ever created under SpecOrder
MaxRaceItems == 3   \* lists and cards, together, ever created under SpecRaceItems
MaxTime   == 1      \* the clock runs 0..MaxTime
MaxTitleLen == 2    \* characters of a title typed under SpecTitles
MaxCandidates == 2  \* boards in the array of an imported file
MaxStored == 1      \* a file is imported into at most MaxStored boards
MaxRandom == 1      \* Math.floor(Math.random() * 10000) draws 0..MaxRandom
MaxWrites == 3      \* operations that save, under SpecLocal
MaxLocalItems == 2  \* lists and cards added under SpecLocal while fewer are held
MaxDragItems == 4   \* lists and cards, together, ever created under SpecDrag

\* `null` of the source (currentBoardId, a failed createBoard); ids start at 1
Null == 0

\* `null` as the currentBoardId of the storage-only store, whose ids are
\* sequences
NoId == <<>>

\* the titles a caller passes: a board is created as "a" and renamed to "a"
\* or "b"; lists and cards are created and renamed as "a"
CreateTitles == {"a"}
Titles       == {"a", "b"}
ItemTitles   == {"a"}
Slots     == {1, 2}

VARIABLES
  dbBoards,        \* table boards: id -> [title, is_archived, updated_at]
  dbLists,         \* table lists:  id -> [board_id, title, position]
  dbCards,         \* table cards:  id -> [list_id, title, description, position]
  nextId,          \* the database's id generator, per table
  boards,          \* ref<Board[]>: the in-memory collection
  currentBoardId,  \* ref<string | null>
  loading,         \* ref<boolean>
  error,           \* ref<string | null>: "null" or "message"
  now,             \* the clock
  ops,             \* the async calls in flight, one per slot
  isEditing,       \* BoardCard: ref(false), per board shown
  editedTitle,     \* BoardCard: ref(""), the characters typed, per board shown
  shouldSaveOnBlur, \* BoardCard: ref(true), per board shown
  focused,         \* BoardCard: the input of the title has the focus, per board shown
  localCards,      \* ListContainer: ref([...props.list.cards]), per list shown
  fileContent,     \* DashboardView.handleFileSelected: the text of the file
  importResult,    \* DashboardView: ref<ImportResult | null>
  localStorage     \* the storage-only store: "bankan-boards" and its writes

vars == <<dbBoards, dbLists, dbCards, nextId, boards, currentBoardId,
          loading, error, now, ops, isEditing, editedTitle, shouldSaveOnBlur, focused,
          localCards, fileContent, importResult, localStorage>>
\* the refs of the BoardCard and ListContainer components and the state of
\* the import
cardVars   == <<isEditing, editedTitle, shouldSaveOnBlur, focused, localCards>>
importVars == <<fileContent, importResult, localStorage>>
dbVars  == <<dbBoards, dbLists, dbCards, nextId>>
memVars == <<boards, currentBoardId, loading, error>>

\* ------------------------------------------------------------ sequences
Range(f) == {f[x] : x \in DOMAIN f}

\* Array.prototype.findIndex on ids, 1-based; 0 when absent
IndexOfId(seq, id) ==
  IF \E i \in 1..Len(seq) : seq[i].id = id
  THEN CHOOSE i \in 1..Len(seq) :
         seq[i].id = id /\ \A j \in 1..(i - 1) : seq[j].id # id
  ELSE 0

\* Array.prototype.filter((x) => x.id !== id)
\* a variant that renumbers what it keeps from 0
FilterOutIdCompacting(seq, id) ==
  LET kept == SelectSeq(seq, LAMBDA x : x.id # id)
  IN [i \in DOMAIN kept |->
        IF "position" \in DOMAIN kept[i]
        THEN [kept[i] EXCEPT !.position = i - 1] ELSE kept[i]]

RECURSIVE FilterOutId(_, _)
FilterOutId(seq, id) ==
  IF seq = <<>> THEN <<>>
  ELSE IF Head(seq).id = id THEN FilterOutId(Tail(seq), id)
       ELSE <<Head(seq)>> \o FilterOutId(Tail(seq), id)

\* a variant that takes the number of siblings for the largest position
MaxPositionByLength(seq) == Len(seq) - 1

\* Math.max(-1, ...positions)
MaxPosition(seq) ==
  LET ps == {seq[i].position : i \in 1..Len(seq)} \cup {-1}
  IN CHOOSE m \in ps : \A p \in ps : p <= m

\* every arrangement of the rows S in ascending `position`; rows with equal
\* position come in the order the database returned them, which no ORDER BY
\* fixes
ByPosition(S) ==
  {f \in [1..Cardinality(S) -> S] :
     /\ \A i, j \in DOMAIN f : i # j => f[i] # f[j]
     /\ \A i, j \in DOMAIN f : i < j => f[i].position <= f[j].position}

\* every arrangement of the board rows S in descending updated_at
ByUpdatedDesc(S) ==
  {f \in [1..Cardinality(S) -> S] :
     /\ \A i, j \in DOMAIN f : i # j => f[i] # f[j]
     /\ \A i, j \in DOMAIN f : i < j => f[i].updated_at >= f[j].updated_at}

\* -------------------------------------------------------------- database
BoardRows == {[id |-> i, title |-> dbBoards[i].title,
               is_archived |-> dbBoards[i].is_archived,
               updated_at |-> dbBoards[i].updated_at] : i \in DOMAIN dbBoards}
ListRows  == {[id |-> i, board_id |-> dbLists[i].board_id,
               title |-> dbLists[i].title,
               position |-> dbLists[i].position] : i \in DOMAIN dbLists}
CardRows  == {[id |-> i, list_id |-> dbCards[i].list_id,
               title |-> dbCards[i].title,
               description |-> dbCards[i].description,
               position |-> dbCards[i].position] : i \in DOMAIN dbCards}

\* fewer than cap lists and cards have been created
ItemsLeft(cap) == (nextId.lists - 1) + (nextId.cards - 1) < cap

\* the ids the database has handed out, which are the ids a caller can hold
KnownBoards == 1..(nextId.boards - 1)
KnownLists  == 1..(nextId.lists - 1)
KnownCards  == 1..(nextId.cards - 1)

\* f without the keys in D
Without(f, D) == [x \in (DOMAIN f) \ D |-> f[x]]

\* ------------------------------------------------------- transformBoard
\* a variant that renumbers the cards of a list from 0 as it builds them
CardsOfRenumbered(dbList, dbCards_) ==
  LET mine == {c \in dbCards_ : c.list_id = dbList.id}
  IN {[i \in DOMAIN f |-> [id |-> f[i].id, title |-> f[i].title,
                            description |-> f[i].description,
                            position |-> i - 1]] : f \in ByPosition(mine)}

\* the cards of one list row, sorted ascending by position
CardsOf(dbList, dbCards_) ==
  LET mine == {c \in dbCards_ : c.list_id = dbList.id}
  IN {[i \in DOMAIN f |-> [id |-> f[i].id, title |-> f[i].title,
                            description |-> f[i].description,
                            position |-> f[i].position]] : f \in ByPosition(mine)}

\* the Board objects transformBoard can build from the rows: one per order
\* of the rows that tie on position
transformBoard(dbBoard, dbLists_, dbCards_) ==
  LET listsForBoard == {l \in dbLists_ : l.board_id = dbBoard.id}
      cardChoices == {g \in [listsForBoard -> UNION {CardsOf(l, dbCards_) : l \in listsForBoard}] :
                        \A l \in listsForBoard : g[l] \in CardsOf(l, dbCards_)}
  IN {[id |-> dbBoard.id,
       title |-> dbBoard.title,
       lists |-> [i \in DOMAIN f |-> [id |-> f[i].id, title |-> f[i].title,
                                      position |-> f[i].position,
                                      cards |-> g[f[i]]]],
       lastModified |-> dbBoard.updated_at,
       isArchived |-> dbBoard.is_archived] :
        f \in ByPosition(listsForBoard), g \in cardChoices}

\* ------------------------------------------------------------ in memory
\* getBoardById: the index of the board in `boards`, 0 for null
getBoardById(id) == IndexOfId(boards, id)

\* the first List / Card of `seq` with this id (Array.prototype.find), as index
getListIndex(bi, listId) == IndexOfId(boards[bi].lists, listId)

\* the lists of board b in memory, <<>> when the board is not there
ListsOf(bs, b) ==
  IF IndexOfId(bs, b) = 0 THEN <<>> ELSE bs[IndexOfId(bs, b)].lists

\* the cards of list l of board b in memory, <<>> when it is not there
CardsIn(bs, b, l) ==
  IF IndexOfId(ListsOf(bs, b), l) = 0 THEN <<>>
  ELSE ListsOf(bs, b)[IndexOfId(ListsOf(bs, b), l)].cards

\* the ids of the items of an array
Ids(seq) == {seq[i].id : i \in DOMAIN seq}

\* the candidate arguments of the bulk reorders: the objects the caller
\* holds, i.e. the lists of the board (the cards of the list) as they are in
\* memory, in any order, any of them left out or repeated
ArraysOver(S) == UNION {[1..n -> S] : n \in 0..Cardinality(S)}
ListObjects(b) ==
  IF getBoardById(b) = 0 THEN {} ELSE Range(boards[getBoardById(b)].lists)
CardObjects(b, l) ==
  LET board == getBoardById(b)
      list == IF board > 0 THEN getListIndex(board, l) ELSE 0
  IN IF list = 0 THEN {} ELSE Range(boards[board].lists[list].cards)

\* a variant that adds the index to the position the item has
WithShiftedPositions(items) ==
  [i \in DOMAIN items |-> [items[i] EXCEPT !.position = @ + i - 1]]

\* a variant that numbers the items from 1
WithOneBasedPositions(items) ==
  [i \in DOMAIN items |-> [items[i] EXCEPT !.position = i]]

\* lists.map((list, index) => ({ ...list, position: index })), 0-based index
WithIndexPositions(items) ==
  [i \in DOMAIN items |-> [items[i] EXCEPT !.position = i - 1]]

\* ------------------------------------------------------------ async calls
Idle ==
  [kind |-> "none", pc |-> "idle", stage |-> 0, bid |-> Null, lid |-> Null,
   cid |-> Null, title |-> "", flag |-> FALSE, items |-> <<>>, pos |-> 0,
   ts |-> 0, ok |-> FALSE, data |-> Null, failed |-> FALSE, dirty |-> FALSE,
   settled |-> "none", ret |-> "none", t0 |-> 0]

\* a call that has run its synchronous prefix and issued its first request.
\* ts is the timestamp the request carries, t0 the time of the call; failed
\* records that a request of the call has failed, dirty that the call has
\* changed boards or currentBoardId.
Call(kind, bid, lid, cid, title, flag, items, pos) ==
  [Idle EXCEPT !.kind = kind, !.pc = "sent", !.stage = 1, !.bid = bid,
               !.lid = lid, !.cid = cid, !.title = title, !.flag = flag,
               !.items = items, !.pos = pos, !.ts = now, !.t0 = now]

Free(s) == ops[s].pc \in {"idle", "done"}
InFlight(s) == ops[s].pc \in {"sent", "back"}

\* the request the call in slot s is waiting on
Req(op) ==
  CASE op.kind = "fetchBoards"                        -> "selectAll"
    [] op.kind = "fetchBoardById"                     -> "selectBoard"
    [] op.kind = "createBoard"                        -> "insertBoard"
    [] op.kind = "updateBoardTitle"                   -> "updateBoardTitle"
    [] op.kind = "deleteBoard"                        -> "deleteBoard"
    [] op.kind \in {"archiveBoard", "unarchiveBoard"} -> "updateBoardArchived"
    [] op.kind = "moveCard" /\ op.stage = 2           -> "selectBoard"
    [] op.kind = "moveCard"                           -> "updateCardList"
    [] op.stage = 2                                   -> "touchBoard"
    [] op.kind = "addList"                            -> "insertList"
    [] op.kind = "updateList"                         -> "updateListTitle"
    [] op.kind = "deleteList"                         -> "deleteList"
    [] op.kind = "addCard"                            -> "insertCard"
    [] op.kind = "updateCard"                         -> "updateCardTitle"
    [] op.kind = "deleteCard"                         -> "deleteCard"
    [] op.kind = "updateListPositions"                -> "upsertLists"
    [] op.kind = "updateCardPositions"                -> "upsertCards"
    [] OTHER                                          -> "none"

Waiting(s, type) == ops[s].pc = "sent" /\ Req(ops[s]) = type

\* the response travels back: ok with its data
Answer(s, data) ==
  ops' = [ops EXCEPT ![s].pc = "back", ![s].ok = TRUE, ![s].data = data]

\* a variant without the catch block: what the body throws rejects the promise
SettleUncaught(kind, threw) ==
  [settled |-> IF threw THEN "rejected" ELSE "resolved",
   ret |-> IF kind \in {"createBoard", "fetchBoardById"} /\ ~threw
           THEN "value" ELSE "void"]

\* try { ... } catch (err) { console.error(...); return null / undefined }:
\* how the promise of the async function settles when its body threw or not
Settle(kind, threw) ==
  [settled |-> "resolved",
   ret |-> IF kind \in {"createBoard", "fetchBoardById"}
           THEN (IF threw THEN "null" ELSE "value")
           ELSE "void"]

\* the async function returns
Return(op, threw) ==
  [Idle EXCEPT !.kind = op.kind, !.pc = "done", !.failed = op.failed,
               !.dirty = op.dirty,
               !.settled = Settle(op.kind, threw).settled,
               !.ret = Settle(op.kind, threw).ret]

\* `if (xError) throw xError` after the first await, caught by the catch block
Throws(s) ==
  /\ ops[s].pc = "back" /\ ops[s].stage = 1 /\ ~ops[s].ok
  /\ ops[s].kind # "fetchBoards"
  /\ ops' = [ops EXCEPT ![s] = Return(ops[s], TRUE)]
  /\ UNCHANGED <<dbVars, memVars, now, cardVars, importVars>>

\* the continuation of op `kind` after its first await, which succeeded
Resumes(s, kind) ==
  ops[s].pc = "back" /\ ops[s].stage = 1 /\ ops[s].ok /\ ops[s].kind = kind

\* the call has written to the collection in this step
Wrote(op) == [op EXCEPT !.dirty = @ \/ boards' # boards]

\* the second request of the list and card operations:
\* await supabase.from("boards").update({ updated_at: new Date().toISOString() })
Touch(op) ==
  [op EXCEPT !.pc = "sent", !.stage = 2, !.ts = now, !.data = Null]

\* the time passes
Tick ==
  /\ now < MaxTime
  /\ now' = now + 1
  /\ UNCHANGED <<dbVars, memVars, ops, cardVars, importVars>>

\* ------------------------------------------------- the backing store
\* Any request can fail (network, constraint, policy): the response carries
\* an error and the tables are untouched.
DbFail(s) ==
  /\ ops[s].pc = "sent"
  /\ ops' = [ops EXCEPT ![s].pc = "back", ![s].ok = FALSE, ![s].failed = TRUE]
  /\ UNCHANGED <<dbVars, memVars, now, cardVars, importVars>>

\* from("boards").insert({ title }).select().single(): the database fills in
\* id, is_archived and updated_at (and created_at, copied to createdAt and
\* never read or written again: the model leaves both out)
DbInsertBoard(s) ==
  /\ Waiting(s, "insertBoard")
  /\ LET id  == nextId.boards
         row == [title |-> ops[s].title, is_archived |-> FALSE,
                 updated_at |-> now]
     IN /\ dbBoards' = [x \in DOMAIN dbBoards \cup {id} |->
                          IF x = id THEN row ELSE dbBoards[x]]
        /\ nextId' = [nextId EXCEPT !.boards = id + 1]
        /\ Answer(s, [id |-> id, title |-> row.title, is_archived |-> FALSE,
                      updated_at |-> now])
  /\ UNCHANGED <<dbLists, dbCards, memVars, now, cardVars, importVars>>

\* from("boards").update({ title, updated_at }).eq("id", boardId)
DbUpdateBoardTitle(s) ==
  /\ Waiting(s, "updateBoardTitle")
  /\ dbBoards' = [x \in DOMAIN dbBoards |->
                    IF x = ops[s].bid
                    THEN [dbBoards[x] EXCEPT !.title = ops[s].title,
                                             !.updated_at = ops[s].ts]
                    ELSE dbBoards[x]]
  /\ Answer(s, Null)
  /\ UNCHANGED <<dbLists, dbCards, nextId, memVars, now, cardVars, importVars>>

\* from("boards").update({ is_archived, updated_at }).eq("id", boardId)
DbUpdateBoardArchived(s) ==
  /\ Waiting(s, "updateBoardArchived")
  /\ dbBoards' = [x \in DOMAIN dbBoards |->
                    IF x = ops[s].bid
                    THEN [dbBoards[x] EXCEPT !.is_archived = ops[s].flag,
                                             !.updated_at = ops[s].ts]
                    ELSE dbBoards[x]]
  /\ Answer(s, Null)
  /\ UNCHANGED <<dbLists, dbCards, nextId, memVars, now, cardVars, importVars>>

\* from("boards").update({ updated_at }).eq("id", boardId)
DbTouchBoard(s) ==
  /\ Waiting(s, "touchBoard")
  /\ dbBoards' = [x \in DOMAIN dbBoards |->
                    IF x = ops[s].bid
                    THEN [dbBoards[x] EXCEPT !.updated_at = ops[s].ts]
                    ELSE dbBoards[x]]
  /\ Answer(s, Null)
  /\ UNCHANGED <<dbLists, dbCards, nextId, memVars, now, cardVars, importVars>>

\* from("boards").delete().eq("id", boardId); lists and cards go with it
\* (foreign keys lists_board_id_fkey, cards_list_id_fkey, on delete cascade)
DbDeleteBoard(s) ==
  /\ Waiting(s, "deleteBoard")
  /\ LET gone == {l \in DOMAIN dbLists : dbLists[l].board_id = ops[s].bid}
     IN /\ dbBoards' = Without(dbBoards, {ops[s].bid})
        /\ dbLists' = Without(dbLists, gone)
        /\ dbCards' = Without(dbCards, {c \in DOMAIN dbCards : dbCards[c].list_id \in gone})
  /\ Answer(s, Null)
  /\ UNCHANGED <<nextId, memVars, now, cardVars, importVars>>

\* from("lists").insert({ board_id, title, position }).select().single()
DbInsertList(s) ==
  /\ Waiting(s, "insertList")
  /\ ops[s].bid \in DOMAIN dbBoards          \* lists_board_id_fkey
  /\ LET id  == nextId.lists
         row == [board_id |-> ops[s].bid, title |-> ops[s].title,
                 position |-> ops[s].pos]
     IN /\ dbLists' = [x \in DOMAIN dbLists \cup {id} |->
                         IF x = id THEN row ELSE dbLists[x]]
        /\ nextId' = [nextId EXCEPT !.lists = id + 1]
        /\ Answer(s, [id |-> id, board_id |-> row.board_id, title |-> row.title,
                      position |-> row.position])
  /\ UNCHANGED <<dbBoards, dbCards, memVars, now, cardVars, importVars>>

\* from("lists").update({ title }).eq("id", listId)
DbUpdateListTitle(s) ==
  /\ Waiting(s, "updateListTitle")
  /\ dbLists' = [x \in DOMAIN dbLists |->
                   IF x = ops[s].lid
                   THEN [dbLists[x] EXCEPT !.title = ops[s].title]
                   ELSE dbLists[x]]
  /\ Answer(s, Null)
  /\ UNCHANGED <<dbBoards, dbCards, nextId, memVars, now, cardVars, importVars>>

\* from("lists").delete().eq("id", listId); its cards go with it
DbDeleteList(s) ==
  /\ Waiting(s, "deleteList")
  /\ dbLists' = Without(dbLists, {ops[s].lid})
  /\ dbCards' = Without(dbCards, {c \in DOMAIN dbCards : dbCards[c].list_id = ops[s].lid})
  /\ Answer(s, Null)
  /\ UNCHANGED <<dbBoards, nextId, memVars, now, cardVars, importVars>>

\* from("cards").insert({ list_id, title, position }).select().single();
\* description takes the column default
DbInsertCard(s) ==
  /\ Waiting(s, "insertCard")
  /\ ops[s].lid \in DOMAIN dbLists           \* cards_list_id_fkey
  /\ LET id  == nextId.cards
         row == [list_id |-> ops[s].lid, title |-> ops[s].title,
                 description |-> "", position |-> ops[s].pos]
     IN /\ dbCards' = [x \in DOMAIN dbCards \cup {id} |->
                         IF x = id THEN row ELSE dbCards[x]]
        /\ nextId' = [nextId EXCEPT !.cards = id + 1]
        /\ Answer(s, [id |-> id, list_id |-> row.list_id, title |-> row.title,
                      description |-> "", position |-> row.position])
  /\ UNCHANGED <<dbBoards, dbLists, memVars, now, cardVars, importVars>>

\* from("cards").update({ title }).eq("id", cardId)
DbUpdateCardTitle(s) ==
  /\ Waiting(s, "updateCardTitle")
  /\ dbCards' = [x \in DOMAIN dbCards |->
                   IF x = ops[s].cid
                   THEN [dbCards[x] EXCEPT !.title = ops[s].title]
                   ELSE dbCards[x]]
  /\ Answer(s, Null)
  /\ UNCHANGED <<dbBoards, dbLists, nextId, memVars, now, cardVars, importVars>>

\* from("cards").delete().eq("id", cardId)
DbDeleteCard(s) ==
  /\ Waiting(s, "deleteCard")
  /\ dbCards' = Without(dbCards, {ops[s].cid})
  /\ Answer(s, Null)
  /\ UNCHANGED <<dbBoards, dbLists, nextId, memVars, now, cardVars, importVars>>

\* from("cards").update({ list_id: toListId, position: newPosition }).eq("id", cardId)
DbUpdateCardList(s) ==
  /\ Waiting(s, "updateCardList")
  /\ ops[s].cid \in DOMAIN dbCards => ops[s].lid \in DOMAIN dbLists
  /\ dbCards' = [x \in DOMAIN dbCards |->
                   IF x = ops[s].cid
                   THEN [dbCards[x] EXCEPT !.list_id = ops[s].lid,
                                           !.position = ops[s].pos]
                   ELSE dbCards[x]]
  /\ Answer(s, Null)
  /\ UNCHANGED <<dbBoards, dbLists, nextId, memVars, now, cardVars, importVars>>

\* upsert: the rows are written in order, an existing id is overwritten
RECURSIVE UpsertRows(_, _)
UpsertRows(table, rows) ==
  IF rows = <<>> THEN table
  ELSE LET r == Head(rows)
           t == [x \in DOMAIN table \cup {r.id} |->
                   IF x = r.id THEN r.row ELSE table[x]]
       IN UpsertRows(t, Tail(rows))

\* from("lists").upsert(updates), updates built by updateListPositions
DbUpsertLists(s) ==
  /\ Waiting(s, "upsertLists")
  /\ ops[s].items # <<>> => ops[s].bid \in DOMAIN dbBoards
  /\ dbLists' = UpsertRows(dbLists, ops[s].data)
  /\ Answer(s, Null)
  /\ UNCHANGED <<dbBoards, dbCards, nextId, memVars, now, cardVars, importVars>>

\* from("cards").upsert(updates), updates built by updateCardPositions
DbUpsertCards(s) ==
  /\ Waiting(s, "upsertCards")
  /\ ops[s].items # <<>> => ops[s].lid \in DOMAIN dbLists
  /\ dbCards' = UpsertRows(dbCards, ops[s].data)
  /\ Answer(s, Null)
  /\ UNCHANGED <<dbBoards, dbLists, nextId, memVars, now, cardVars, importVars>>

\* the three selects of fetchBoards
DbSelectAll(s) ==
  /\ Waiting(s, "selectAll")
  /\ Answer(s, [boards |-> BoardRows, lists |-> ListRows, cards |-> CardRows])
  /\ UNCHANGED <<dbVars, memVars, now, cardVars, importVars>>

\* the three selects of fetchBoardById; .single() is an error without a row
DbSelectBoard(s) ==
  /\ Waiting(s, "selectBoard")
  /\ ops[s].bid \in DOMAIN dbBoards
  /\ Answer(s, [board |-> CHOOSE b \in BoardRows : b.id = ops[s].bid,
                lists |-> {l \in ListRows : l.board_id = ops[s].bid},
                cards |-> CardRows])
  /\ UNCHANGED <<dbVars, memVars, now, cardVars, importVars>>

\* ------------------------------------------------------ store operations
\* fetchBoards, up to the await
fetchBoards(s) ==
  /\ Free(s)
  /\ loading' = TRUE
  /\ error' = "null"
  /\ ops' = [ops EXCEPT ![s] = Call("fetchBoards", Null, Null, Null, "", FALSE, <<>>, 0)]
  /\ UNCHANGED <<dbVars, boards, currentBoardId, now, cardVars, importVars>>

\* fetchBoards after the await: replace the collection, or record the error;
\* finally loading = false
fetchBoardsResume(s) ==
  /\ ops[s].pc = "back" /\ ops[s].kind = "fetchBoards"
  /\ IF ops[s].ok
     THEN /\ \E order \in ByUpdatedDesc(ops[s].data.boards) :
               \E pick \in [DOMAIN order ->
                              UNION {transformBoard(b, ops[s].data.lists, ops[s].data.cards) :
                                       b \in ops[s].data.boards}] :
                 /\ \A i \in DOMAIN order :
                      pick[i] \in transformBoard(order[i], ops[s].data.lists, ops[s].data.cards)
                 /\ boards' = pick
          /\ error' = error
          /\ ops' = [ops EXCEPT ![s] = Return(Wrote(ops[s]), FALSE)]
     ELSE /\ boards' = boards
          /\ error' = "message"
          /\ ops' = [ops EXCEPT ![s] = Return(ops[s], TRUE)]
  /\ loading' = FALSE
  /\ UNCHANGED <<dbVars, currentBoardId, now, cardVars, importVars>>

\* fetchBoardById, up to the await
fetchBoardById(s, boardId) ==
  /\ Free(s)
  /\ ops' = [ops EXCEPT ![s] = Call("fetchBoardById", boardId, Null, Null, "", FALSE, <<>>, 0)]
  /\ UNCHANGED <<dbVars, memVars, now, cardVars, importVars>>

\* the body of fetchBoardById after its await: the collection with the board
\* replaced in place, or pushed when it was not there
Refreshed(data, boardId) ==
  LET listIds == {l.id : l \in data.lists}
      dbCards_ == {c \in data.cards : c.list_id \in listIds}
      index == getBoardById(boardId)
  IN {IF index > 0 THEN [boards EXCEPT ![index] = board] ELSE Append(boards, board) :
        board \in transformBoard(data.board, data.lists, dbCards_)}

fetchBoardByIdResume(s) ==
  /\ Resumes(s, "fetchBoardById")
  /\ boards' \in Refreshed(ops[s].data, ops[s].bid)
  /\ ops' = [ops EXCEPT ![s] = Return(Wrote(ops[s]), FALSE)]
  /\ UNCHANGED <<dbVars, currentBoardId, loading, error, now,
               cardVars, importVars>>

\* createBoard, up to the await
createBoard(s, title) ==
  /\ Free(s)
  /\ ops' = [ops EXCEPT ![s] = Call("createBoard", Null, Null, Null, title, FALSE, <<>>, 0)]
  /\ UNCHANGED <<dbVars, memVars, now, cardVars, importVars>>

\* createBoard after the await: boards.value.unshift(newBoard)
createBoardResume(s) ==
  /\ Resumes(s, "createBoard")
  /\ LET data == ops[s].data
         newBoard == [id |-> data.id, title |-> data.title, lists |-> <<>>,
                      lastModified |-> data.updated_at,
                      isArchived |-> data.is_archived]
     IN boards' = <<newBoard>> \o boards
  /\ ops' = [ops EXCEPT ![s] = Return(Wrote(ops[s]), FALSE)]
  /\ UNCHANGED <<dbVars, currentBoardId, loading, error, now,
               cardVars, importVars>>

\* updateBoardTitle, up to the await
updateBoardTitle(s, boardId, newTitle) ==
  /\ Free(s)
  /\ ops' = [ops EXCEPT ![s] = Call("updateBoardTitle", boardId, Null, Null, newTitle, FALSE, <<>>, 0)]
  /\ UNCHANGED <<dbVars, memVars, now, importVars>>

updateBoardTitleResume(s) ==
  /\ Resumes(s, "updateBoardTitle")
  /\ LET board == getBoardById(ops[s].bid)
     IN boards' = IF board > 0
                  THEN [boards EXCEPT ![board].title = ops[s].title,
                                      ![board].lastModified = now]
                  ELSE boards
  /\ ops' = [ops EXCEPT ![s] = Return(Wrote(ops[s]), FALSE)]
  /\ UNCHANGED <<dbVars, currentBoardId, loading, error, now,
               cardVars, importVars>>

\* deleteBoard, up to the await
deleteBoard(s, boardId) ==
  /\ Free(s)
  /\ ops' = [ops EXCEPT ![s] = Call("deleteBoard", boardId, Null, Null, "", FALSE, <<>>, 0)]
  /\ UNCHANGED <<dbVars, memVars, now, cardVars, importVars>>

deleteBoardResume(s) ==
  /\ Resumes(s, "deleteBoard")
  /\ boards' = FilterOutId(boards, ops[s].bid)
  /\ currentBoardId' = IF currentBoardId = ops[s].bid THEN Null ELSE currentBoardId
  /\ ops' = [ops EXCEPT ![s] =
               Return([ops[s] EXCEPT !.dirty = boards' # boards
                                                \/ currentBoardId' # currentBoardId],
                      FALSE)]
  /\ UNCHANGED <<dbVars, loading, error, now, cardVars, importVars>>

\* archiveBoard, up to the await
archiveBoard(s, boardId) ==
  /\ Free(s)
  /\ ops' = [ops EXCEPT ![s] = Call("archiveBoard", boardId, Null, Null, "", TRUE, <<>>, 0)]
  /\ UNCHANGED <<dbVars, memVars, now, cardVars, importVars>>

archiveBoardResume(s) ==
  /\ Resumes(s, "archiveBoard")
  /\ LET board == getBoardById(ops[s].bid)
     IN boards' = IF board > 0
                  THEN [boards EXCEPT ![board].isArchived = TRUE,
                                      ![board].lastModified = now]
                  ELSE boards
  /\ ops' = [ops EXCEPT ![s] = Return(Wrote(ops[s]), FALSE)]
  /\ UNCHANGED <<dbVars, currentBoardId, loading, error, now,
               cardVars, importVars>>

\* unarchiveBoard, up to the await
unarchiveBoard(s, boardId) ==
  /\ Free(s)
  /\ ops' = [ops EXCEPT ![s] = Call("unarchiveBoard", boardId, Null, Null, "", FALSE, <<>>, 0)]
  /\ UNCHANGED <<dbVars, memVars, now, cardVars, importVars>>

unarchiveBoardResume(s) ==
  /\ Resumes(s, "unarchiveBoard")
  /\ LET board == getBoardById(ops[s].bid)
     IN boards' = IF board > 0
                  THEN [boards EXCEPT ![board].isArchived = FALSE,
                                      ![board].lastModified = now]
                  ELSE boards
  /\ ops' = [ops EXCEPT ![s] = Return(Wrote(ops[s]), FALSE)]
  /\ UNCHANGED <<dbVars, currentBoardId, loading, error, now,
               cardVars, importVars>>

\* setCurrentBoard: synchronous
setCurrentBoard(boardId) ==
  /\ getBoardById(boardId) > 0
  /\ currentBoardId' = boardId
  /\ UNCHANGED <<dbVars, boards, loading, error, now, ops,
               cardVars, importVars>>

\* addList, up to the await: maxPosition from the board in memory
addList(s, boardId, title) ==
  /\ Free(s)
  /\ LET board == getBoardById(boardId)
         maxPosition == IF board > 0 THEN MaxPosition(boards[board].lists) + 1 ELSE 0
     IN ops' = [ops EXCEPT ![s] = Call("addList", boardId, Null, Null, title, FALSE, <<>>, maxPosition)]
  /\ UNCHANGED <<dbVars, memVars, now, cardVars, importVars>>

\* addList after the insert: push the list, bump lastModified, touch the board
addListResume(s) ==
  /\ Resumes(s, "addList")
  /\ LET board == getBoardById(ops[s].bid)
         data == ops[s].data
     IN boards' = IF board > 0
                  THEN [boards EXCEPT
                          ![board].lists = Append(@, [id |-> data.id, title |-> data.title,
                                                      position |-> data.position,
                                                      cards |-> <<>>]),
                          ![board].lastModified = now]
                  ELSE boards
  /\ ops' = [ops EXCEPT ![s] = Touch(Wrote([ops[s] EXCEPT !.lid = ops[s].data.id]))]
  /\ UNCHANGED <<dbVars, currentBoardId, loading, error, now,
               cardVars, importVars>>

\* updateList, up to the await
updateList(s, boardId, listId, newTitle) ==
  /\ Free(s)
  /\ ops' = [ops EXCEPT ![s] = Call("updateList", boardId, listId, Null, newTitle, FALSE, <<>>, 0)]
  /\ UNCHANGED <<dbVars, memVars, now, cardVars, importVars>>

updateListResume(s) ==
  /\ Resumes(s, "updateList")
  /\ LET board == getBoardById(ops[s].bid)
         list == IF board > 0 THEN getListIndex(board, ops[s].lid) ELSE 0
     IN boards' = IF board = 0 THEN boards
                  ELSE IF list = 0 THEN [boards EXCEPT ![board].lastModified = now]
                  ELSE [boards EXCEPT ![board].lists[list].title = ops[s].title,
                                      ![board].lastModified = now]
  /\ ops' = [ops EXCEPT ![s] = Touch(Wrote(ops[s]))]
  /\ UNCHANGED <<dbVars, currentBoardId, loading, error, now,
               cardVars, importVars>>

\* deleteList, up to the await
deleteList(s, boardId, listId) ==
  /\ Free(s)
  /\ ops' = [ops EXCEPT ![s] = Call("deleteList", boardId, listId, Null, "", FALSE, <<>>, 0)]
  /\ UNCHANGED <<dbVars, memVars, now, cardVars, importVars>>

deleteListResume(s) ==
  /\ Resumes(s, "deleteList")
  /\ LET board == getBoardById(ops[s].bid)
     IN boards' = IF board > 0
                  THEN [boards EXCEPT ![board].lists = FilterOutId(@, ops[s].lid),
                                      ![board].lastModified = now]
                  ELSE boards
  /\ ops' = [ops EXCEPT ![s] = Touch(Wrote(ops[s]))]
  /\ UNCHANGED <<dbVars, currentBoardId, loading, error, now,
               cardVars, importVars>>

\* addCard, up to the await: maxPosition from the list in memory
addCard(s, boardId, listId, cardTitle) ==
  /\ Free(s)
  /\ LET board == getBoardById(boardId)
         list == IF board > 0 THEN getListIndex(board, listId) ELSE 0
         maxPosition == IF list > 0
                        THEN MaxPosition(boards[board].lists[list].cards) + 1
                        ELSE 0
     IN ops' = [ops EXCEPT ![s] = Call("addCard", boardId, listId, Null, cardTitle, FALSE, <<>>, maxPosition)]
  /\ UNCHANGED <<dbVars, memVars, now, cardVars, importVars>>

\* addCard after the insert.  `list` was looked up before the await: the
\* push goes to that list object, found again here by its id
addCardResume(s) ==
  /\ Resumes(s, "addCard")
  /\ LET board == getBoardById(ops[s].bid)
         list == IF board > 0 THEN getListIndex(board, ops[s].lid) ELSE 0
         data == ops[s].data
         card == [id |-> data.id, title |-> data.title,
                  description |-> data.description, position |-> data.position]
     IN boards' = IF board = 0 THEN boards
                  ELSE IF list = 0 THEN [boards EXCEPT ![board].lastModified = now]
                  ELSE [boards EXCEPT ![board].lists[list].cards = Append(@, card),
                                      ![board].lastModified = now]
  /\ ops' = [ops EXCEPT ![s] = Touch(Wrote([ops[s] EXCEPT !.cid = ops[s].data.id]))]
  /\ UNCHANGED <<dbVars, currentBoardId, loading, error, now,
               cardVars, importVars>>

\* updateCard, up to the await
updateCard(s, boardId, listId, cardId, newTitle) ==
  /\ Free(s)
  /\ ops' = [ops EXCEPT ![s] = Call("updateCard", boardId, listId, cardId, newTitle, FALSE, <<>>, 0)]
  /\ UNCHANGED <<dbVars, memVars, now, cardVars, importVars>>

updateCardResume(s) ==
  /\ Resumes(s, "updateCard")
  /\ LET board == getBoardById(ops[s].bid)
         list == IF board > 0 THEN getListIndex(board, ops[s].lid) ELSE 0
         card == IF list > 0 THEN IndexOfId(boards[board].lists[list].cards, ops[s].cid) ELSE 0
     IN boards' = IF board = 0 THEN boards
                  ELSE IF card = 0 THEN [boards EXCEPT ![board].lastModified = now]
                  ELSE [boards EXCEPT ![board].lists[list].cards[card].title = ops[s].title,
                                      ![board].lastModified = now]
  /\ ops' = [ops EXCEPT ![s] = Touch(Wrote(ops[s]))]
  /\ UNCHANGED <<dbVars, currentBoardId, loading, error, now,
               cardVars, importVars>>

\* deleteCard, up to the await
deleteCard(s, boardId, listId, cardId) ==
  /\ Free(s)
  /\ ops' = [ops EXCEPT ![s] = Call("deleteCard", boardId, listId, cardId, "", FALSE, <<>>, 0)]
  /\ UNCHANGED <<dbVars, memVars, now, cardVars, importVars>>

deleteCardResume(s) ==
  /\ Resumes(s, "deleteCard")
  /\ LET board == getBoardById(ops[s].bid)
         list == IF board > 0 THEN getListIndex(board, ops[s].lid) ELSE 0
     IN boards' = IF board = 0 THEN boards
                  ELSE IF list = 0 THEN [boards EXCEPT ![board].lastModified = now]
                  ELSE [boards EXCEPT ![board].lists[list].cards = FilterOutId(@, ops[s].cid),
                                      ![board].lastModified = now]
  /\ ops' = [ops EXCEPT ![s] = Touch(Wrote(ops[s]))]
  /\ UNCHANGED <<dbVars, currentBoardId, loading, error, now,
               cardVars, importVars>>

\* updateListPositions, up to the await: `updates` is built from the argument
updateListPositions(s, boardId, lists) ==
  /\ Free(s)
  /\ LET updates == [index \in DOMAIN lists |->
                       [id |-> lists[index].id,
                        row |-> [board_id |-> boardId, title |-> lists[index].title,
                                 position |-> index - 1]]]
     IN ops' = [ops EXCEPT ![s] =
                  [Call("updateListPositions", boardId, Null, Null, "", FALSE, lists, 0)
                     EXCEPT !.data = updates]]
  /\ UNCHANGED <<dbVars, memVars, now, cardVars, importVars>>

updateListPositionsResume(s) ==
  /\ Resumes(s, "updateListPositions")
  /\ LET board == getBoardById(ops[s].bid)
     IN boards' = IF board > 0
                  THEN [boards EXCEPT ![board].lists = WithIndexPositions(ops[s].items),
                                      ![board].lastModified = now]
                  ELSE boards
  /\ ops' = [ops EXCEPT ![s] = Touch(Wrote(ops[s]))]
  /\ UNCHANGED <<dbVars, currentBoardId, loading, error, now,
               cardVars, importVars>>

\* updateCardPositions, up to the await
updateCardPositions(s, boardId, listId, cards) ==
  /\ Free(s)
  /\ LET updates == [index \in DOMAIN cards |->
                       [id |-> cards[index].id,
                        row |-> [list_id |-> listId, title |-> cards[index].title,
                                 description |-> cards[index].description,
                                 position |-> index - 1]]]
     IN ops' = [ops EXCEPT ![s] =
                  [Call("updateCardPositions", boardId, listId, Null, "", FALSE, cards, 0)
                     EXCEPT !.data = updates]]
  /\ UNCHANGED <<dbVars, memVars, now, importVars>>

updateCardPositionsResume(s) ==
  /\ Resumes(s, "updateCardPositions")
  /\ LET board == getBoardById(ops[s].bid)
         list == IF board > 0 THEN getListIndex(board, ops[s].lid) ELSE 0
     IN boards' = IF board = 0 THEN boards
                  ELSE IF list = 0 THEN [boards EXCEPT ![board].lastModified = now]
                  ELSE [boards EXCEPT ![board].lists[list].cards = WithIndexPositions(ops[s].items),
                                      ![board].lastModified = now]
  /\ ops' = [ops EXCEPT ![s] = Touch(Wrote(ops[s]))]
  /\ UNCHANGED <<dbVars, currentBoardId, loading, error, now,
               cardVars, importVars>>

\* the list and card operations return once the touch of the board is
\* answered; its result is not looked at
Touched(s) ==
  /\ ops[s].pc = "back" /\ ops[s].stage = 2 /\ ops[s].kind # "moveCard"
  /\ ops' = [ops EXCEPT ![s] = Return(ops[s], FALSE)]
  /\ UNCHANGED <<dbVars, memVars, now, cardVars, importVars>>

\* moveCard, up to the await; _fromListId is not used
moveCard(s, boardId, fromListId, toListId, cardId, newPosition) ==
  /\ Free(s)
  /\ ops' = [ops EXCEPT ![s] = Call("moveCard", boardId, toListId, cardId, "", FALSE, <<>>, newPosition)]
  /\ UNCHANGED <<dbVars, memVars, now, cardVars, importVars>>

\* moveCard after the update: await fetchBoardById(boardId)
moveCardResume(s) ==
  /\ Resumes(s, "moveCard")
  /\ ops' = [ops EXCEPT ![s].pc = "sent", ![s].stage = 2]
  /\ UNCHANGED <<dbVars, memVars, now, cardVars, importVars>>

\* moveCard after fetchBoardById, which has refreshed the board or caught
\* its error and returned null
moveCardRefetched(s) ==
  /\ ops[s].pc = "back" /\ ops[s].stage = 2 /\ ops[s].kind = "moveCard"
  /\ IF ops[s].ok
     THEN /\ boards' \in Refreshed(ops[s].data, ops[s].bid)
          /\ ops' = [ops EXCEPT ![s] = Return(Wrote(ops[s]), FALSE)]
     ELSE /\ boards' = boards
          /\ ops' = [ops EXCEPT ![s] = Return(ops[s], FALSE)]
  /\ UNCHANGED <<dbVars, currentBoardId, loading, error, now,
               cardVars, importVars>>

\* ------------------------------------------------------------ the system
Init ==
  /\ dbBoards = <<>>
  /\ dbLists = <<>>
  /\ dbCards = <<>>
  /\ nextId = [boards |-> 1, lists |-> 1, cards |-> 1]
  /\ boards = <<>>
  /\ currentBoardId = Null
  /\ loading = FALSE
  /\ error = "null"
  /\ now = 0
  /\ ops = [s \in Slots |-> Idle]
  /\ isEditing = [b \in 1..MaxBoards |-> FALSE]
  /\ editedTitle = [b \in 1..MaxBoards |-> <<>>]
  /\ shouldSaveOnBlur = [b \in 1..MaxBoards |-> TRUE]
  /\ focused = [b \in 1..MaxBoards |-> FALSE]
  /\ localCards = <<>>
  /\ fileContent = <<>>
  /\ importResult = [t |-> "null"]
  /\ localStorage = [items |-> <<>>, writes |-> 0]

\* the backing store serves the request in slot s: the requests of the
\* operations on boards, lists and cards ...
DbCore(s) ==
  \/ DbFail(s)
  \/ DbSelectBoard(s) \/ DbInsertBoard(s) \/ DbTouchBoard(s) \/ DbDeleteBoard(s)
  \/ DbInsertList(s) \/ DbUpdateListTitle(s) \/ DbDeleteList(s) \/ DbUpsertLists(s)
  \/ DbInsertCard(s) \/ DbUpdateCardTitle(s) \/ DbDeleteCard(s) \/ DbUpsertCards(s)
  \/ DbUpdateCardList(s)

\* ... and of the operations on the attributes of a board and on the collection
DbAttr(s) ==
  \/ DbSelectAll(s) \/ DbUpdateBoardTitle(s) \/ DbUpdateBoardArchived(s)

\* a continuation runs
ResumeCore(s) ==
  \/ Throws(s) \/ Touched(s)
  \/ fetchBoardByIdResume(s) \/ createBoardResume(s) \/ deleteBoardResume(s)
  \/ addListResume(s) \/ updateListResume(s) \/ deleteListResume(s)
  \/ addCardResume(s) \/ updateCardResume(s) \/ deleteCardResume(s)
  \/ updateListPositionsResume(s) \/ updateCardPositionsResume(s)
  \/ moveCardResume(s) \/ moveCardRefetched(s)

ResumeAttr(s) ==
  \/ fetchBoardsResume(s) \/ updateBoardTitleResume(s)
  \/ archiveBoardResume(s) \/ unarchiveBoardResume(s)

\* the indices at which card c can be dropped into list l: among the cards
\* of the list, c itself not counted
DropPositions(b, l, c) ==
  LET board == getBoardById(b)
      list == IF board > 0 THEN getListIndex(board, l) ELSE 0
  IN IF list > 0
     THEN 0..Len(FilterOutId(boards[board].lists[list].cards, c))
     ELSE {0}

\* a caller invokes an operation on a board, its lists or its cards; the
\* database creates at most MaxBoards boards and cap lists and cards
InvokeCore(s, cap) ==
  \/ \E b \in KnownBoards : fetchBoardById(s, b)
  \/ nextId.boards <= MaxBoards /\ \E t \in CreateTitles : createBoard(s, t)
  \/ \E b \in KnownBoards : deleteBoard(s, b)
  \/ ItemsLeft(cap) /\ \E b \in KnownBoards, t \in ItemTitles : addList(s, b, t)
  \/ \E b \in KnownBoards, l \in KnownLists, t \in ItemTitles : updateList(s, b, l, t)
  \/ \E b \in KnownBoards, l \in KnownLists : deleteList(s, b, l)
  \/ ItemsLeft(cap) /\ \E b \in KnownBoards, l \in KnownLists, t \in ItemTitles :
       addCard(s, b, l, t)
  \/ \E b \in KnownBoards, l \in KnownLists, c \in KnownCards, t \in ItemTitles :
       updateCard(s, b, l, c, t)
  \/ \E b \in KnownBoards, l \in KnownLists, c \in KnownCards : deleteCard(s, b, l, c)
  \/ \E b \in KnownBoards : \E lists \in ArraysOver(ListObjects(b)) :
       updateListPositions(s, b, lists)
  \/ \E b \in KnownBoards, l \in KnownLists : \E cards \in ArraysOver(CardObjects(b, l)) :
       updateCardPositions(s, b, l, cards) /\ UNCHANGED cardVars
  \/ \E b \in KnownBoards, l \in KnownLists, c \in KnownCards :
       \E p \in DropPositions(b, l, c) : moveCard(s, b, l, l, c, p)

\* a caller invokes an operation on the attributes of a board or on the
\* collection
InvokeAttr(s) ==
  \/ fetchBoards(s)
  \/ \E b \in KnownBoards, t \in Titles :
       updateBoardTitle(s, b, t) /\ UNCHANGED cardVars
  \/ \E b \in KnownBoards : archiveBoard(s, b)
  \/ \E b \in KnownBoards : unarchiveBoard(s, b)

\* The store with every operation.  The user interface serialises the
\* user's actions: an operation is invoked when no other is in flight.
Next ==
  \/ InvokeCore(1, MaxItems) \/ InvokeAttr(1)
  \/ DbCore(1) \/ DbAttr(1)
  \/ ResumeCore(1) \/ ResumeAttr(1)
  \/ \E b \in KnownBoards : setCurrentBoard(b)
  \/ Tick

Spec == Init /\ [][Next]_vars

\* The ordering engine: the operations that create, delete, reorder and
\* move lists and cards, on more items, with the clock and the board
\* attributes (title, isArchived, loading, error, currentBoardId) left alone.
NextOrder ==
  \/ InvokeCore(1, MaxOrderItems)
  \/ DbCore(1)
  \/ ResumeCore(1)

SpecOrder == Init /\ [][NextOrder]_vars

\* ------------------------------------------------------------- the titles
\* What the user types is a sequence of characters; a title the store holds
\* is the string of them.
Chars == {" ", "a"}
Typed == UNION {[1..n -> Chars] : n \in 0..MaxTitleLen}

\* String.prototype.trim
RECURSIVE TrimStart(_)
TrimStart(t) == IF t # <<>> /\ Head(t) = " " THEN TrimStart(Tail(t)) ELSE t

RECURSIVE TrimEnd(_)
TrimEnd(t) ==
  IF t # <<>> /\ t[Len(t)] = " " THEN TrimEnd(SubSeq(t, 1, Len(t) - 1)) ELSE t

Trim(t) == TrimEnd(TrimStart(t))

\* the string of the characters
RECURSIVE Str(_)
Str(t) == IF t = <<>> THEN "" ELSE Head(t) \o Str(Tail(t))

\* the characters of a string a component reads back from the store
CharsOf(title) == CHOOSE t \in Typed : Str(t) = title

\* DashboardView.createBoard:
\* if (newBoardName.value.trim()) boardsStore.createBoard(newBoardName.value.trim())
DashboardCreateBoard(s, newBoardName) ==
  /\ Trim(newBoardName) # <<>>
  /\ createBoard(s, Str(Trim(newBoardName)))

\* DashboardView.handleRename, the handler of BoardCard's "rename" event
handleRename(s, boardId, newTitle) == updateBoardTitle(s, boardId, newTitle)

\* BoardCard.startEditing, on the card of board b
startEditing(b) ==
  /\ getBoardById(b) > 0
  /\ ~isEditing[b]
  /\ editedTitle' = [editedTitle EXCEPT ![b] = CharsOf(boards[getBoardById(b)].title)]
  /\ isEditing' = [isEditing EXCEPT ![b] = TRUE]
  /\ shouldSaveOnBlur' = [shouldSaveOnBlur EXCEPT ![b] = TRUE]
  /\ focused' = [focused EXCEPT ![b] = TRUE]
  /\ UNCHANGED <<dbVars, memVars, now, ops, localCards, importVars>>

\* the user edits the input bound to editedTitle (v-model)
typeTitle(b, t) ==
  /\ isEditing[b]
  /\ editedTitle' = [editedTitle EXCEPT ![b] = t]
  /\ UNCHANGED <<dbVars, memVars, now, ops, isEditing, shouldSaveOnBlur, focused,
               localCards, importVars>>

\* a variant that emits "rename" whatever was typed
saveEditUnguarded(s, b) ==
  /\ isEditing[b]
  /\ handleRename(s, b, Str(Trim(editedTitle[b])))
  /\ isEditing' = [isEditing EXCEPT ![b] = FALSE]
  /\ UNCHANGED <<editedTitle, shouldSaveOnBlur, focused, localCards>>

\* BoardCard.saveEdit (Enter, or blur): emits "rename" with the trimmed title
\* if it is not empty, and leaves the editing mode
saveEdit(s, b) ==
  /\ isEditing[b]
  /\ IF Trim(editedTitle[b]) # <<>>
     THEN handleRename(s, b, Str(Trim(editedTitle[b])))
     ELSE UNCHANGED <<dbVars, memVars, now, ops, importVars>>
  /\ isEditing' = [isEditing EXCEPT ![b] = FALSE]
  /\ UNCHANGED <<editedTitle, shouldSaveOnBlur, focused, localCards>>

\* The titles: boards are created and renamed through the dashboard, which
\* trims and checks what was typed, and by calls of the store's createBoard
\* and updateBoardTitle with any title.
NextTitles ==
  \/ nextId.boards <= MaxBoards /\ \E t \in Typed : createBoard(1, Str(t))
  \/ nextId.boards <= MaxBoards /\ \E t \in Typed : DashboardCreateBoard(1, t)
  \/ \E b \in KnownBoards, t \in Typed :
       updateBoardTitle(1, b, Str(t)) /\ UNCHANGED cardVars
  \/ \E b \in KnownBoards : startEditing(b)
  \/ \E b \in KnownBoards, t \in Typed : typeTitle(b, t)
  \/ \E b \in KnownBoards : saveEdit(1, b)
  \/ DbFail(1) \/ DbInsertBoard(1) \/ DbUpdateBoardTitle(1)
  \/ Throws(1) \/ createBoardResume(1) \/ updateBoardTitleResume(1)

SpecTitles == Init /\ [][NextTitles]_vars

\* -------------------------------------------------------------- the import
\* The storage-only variant of the store (src/unnamed/part_004) keeps the
\* same refs boards and currentBoardId and saves them in localStorage; its
\* boards, lists and cards carry no position.  A JavaScript value is a record
\* with its type t and, but for null and undefined, its value v; an object
\* is the function from its keys to their values.
Undefined == [t |-> "undefined"]
JNull     == [t |-> "null"]
JNum(n)   == [t |-> "number", v |-> n]
JStr(str) == [t |-> "string", v |-> str]
\* a string made by a template or by toISOString, as the sequence of its parts
JText(parts) == [t |-> "string", parts |-> parts]
JArr(seq) == [t |-> "array", v |-> seq]
JObj(f)   == [t |-> "object", v |-> f]

\* data.key
Get(x, key) ==
  IF x.t = "object" /\ key \in DOMAIN x.v THEN x.v[key] ELSE Undefined

\* the truthiness !x tests
Truthy(x) ==
  CASE x.t \in {"undefined", "null"} -> FALSE
    [] x.t = "number"                -> x.v # 0
    [] x.t = "string"                -> IF "parts" \in DOMAIN x THEN x.parts # <<>>
                                        ELSE x.v # ""
    [] x.t = "boolean"               -> x.v
    [] OTHER                         -> TRUE

\* typeof x === "object", typeof x === "string", Array.isArray(x)
TypeofObject(x) == x.t \in {"object", "array", "null"}
TypeofString(x) == x.t = "string"
IsArray(x) == x.t = "array"

\* x || y
Or(x, y) == IF Truthy(x) THEN x ELSE y

\* the values a file holds, one board each or not
CardsOfB ==
  JArr(<<JNum(5),
         JObj([title |-> JStr("")]),
         JObj([title |-> JStr("c2"), description |-> JNum(5)]),
         JObj([title |-> JStr("c3"), description |-> JStr("d")])>>)
BoardX ==
  JObj([title |-> JStr("X"),
        lists |-> JArr(<<JObj([title |-> JStr("A"),
                               cards |-> JArr(<<JObj([title |-> JStr("c1")])>>)])>>)])
BoardM ==
  JObj([title |-> JStr("M"),
        lists |-> JArr(<<JNull,
                         JObj([cards |-> JArr(<<>>)]),
                         JObj([title |-> JStr("B"), cards |-> CardsOfB]),
                         JObj([title |-> JStr("C")])>>)])
Values ==
  {JNum(5),
   JObj([lists |-> JArr(<<>>)]),
   JObj([title |-> JStr("")]),
   JObj([title |-> JNum(5), lists |-> JArr(<<>>)]),
   JObj([title |-> JStr("X")]),
   JObj([title |-> JStr("Valid"), lists |-> JArr(<<>>)]),
   BoardX, BoardM}

\* The text of a file, as the sequence of its items: a value of Values
\* stands for its own text, and the brackets and the comma for themselves.
LBracket == [t |-> "["]
RBracket == [t |-> "]"]
Comma    == [t |-> ","]
IsValue(item) == item.t \notin {"[", "]", ","}

RECURSIVE Listed(_)
Listed(seq) ==
  IF Len(seq) = 0 THEN <<>>
  ELSE IF Len(seq) = 1 THEN <<seq[1]>>
  ELSE <<seq[1], Comma>> \o Listed(Tail(seq))

WellFormed ==
  {<<x>> : x \in Values} \cup
  UNION {{<<LBracket>> \o Listed(seq) \o <<RBracket>> : seq \in [1..n -> Values]} :
           n \in 0..MaxCandidates}
\* text that is no JSON: nothing, brackets that do not match, a comma too
\* many or too few
Malformed ==
  UNION {{<<>>, <<LBracket>>, <<LBracket, x>>, <<x, RBracket>>,
          <<LBracket, x, Comma, RBracket>>, <<LBracket, x, x, RBracket>>} :
           x \in {JNum(5), BoardX}}
Files == WellFormed \cup Malformed

\* the elements of  x , x , ... , x  when the text is of that form
RECURSIVE Elements(_)
Elements(text) ==
  IF Len(text) = 1 /\ IsValue(text[1]) THEN [ok |-> TRUE, v |-> <<text[1]>>]
  ELSE IF Len(text) >= 3 /\ IsValue(text[1]) /\ text[2] = Comma
  THEN LET rest == Elements(SubSeq(text, 3, Len(text)))
       IN [ok |-> rest.ok, v |-> <<text[1]>> \o rest.v]
  ELSE [ok |-> FALSE, v |-> <<>>]

\* JSON.parse(fileContent): the value, or the SyntaxError it throws
JSONparse(text) ==
  IF Len(text) = 1 /\ IsValue(text[1]) THEN [ok |-> TRUE, v |-> text[1]]
  ELSE IF Len(text) = 2 /\ text[1] = LBracket /\ text[2] = RBracket
  THEN [ok |-> TRUE, v |-> JArr(<<>>)]
  ELSE IF Len(text) >= 3 /\ text[1] = LBracket /\ text[Len(text)] = RBracket
          /\ Elements(SubSeq(text, 2, Len(text) - 1)).ok
  THEN [ok |-> TRUE, v |-> JArr(Elements(SubSeq(text, 2, Len(text) - 1)).v)]
  ELSE [ok |-> FALSE, v |-> "SyntaxError"]

\* validateBoard, the loop over list.cards
RECURSIVE ValidCards(_, _)
ValidCards(cards, time) ==
  IF cards = <<>> THEN <<>>
  ELSE LET card == Head(cards)
           rest == ValidCards(Tail(cards), time)
       IN IF ~Truthy(card) \/ ~TypeofObject(card) THEN rest
          ELSE IF ~Truthy(Get(card, "title")) \/ ~TypeofString(Get(card, "title"))
          THEN rest
          ELSE <<[id |-> Or(Get(card, "id"), JText(<<"temp", time>>)),
                  title |-> Get(card, "title").v,
                  description |-> Or(Get(card, "description"), JStr(""))]>>
               \o rest

\* validateBoard, the loop over data.lists
RECURSIVE ValidLists(_, _)
ValidLists(lists, time) ==
  IF lists = <<>> THEN <<>>
  ELSE LET list == Head(lists)
           rest == ValidLists(Tail(lists), time)
       IN IF ~Truthy(list) \/ ~TypeofObject(list) THEN rest
          ELSE IF ~Truthy(Get(list, "title")) \/ ~TypeofString(Get(list, "title"))
          THEN rest
          ELSE <<[id |-> Or(Get(list, "id"), JText(<<"temp", time>>)),
                  title |-> Get(list, "title").v,
                  cards |-> IF IsArray(Get(list, "cards"))
                            THEN ValidCards(Get(list, "cards").v, time)
                            ELSE <<>>]>>
               \o rest

validateBoard(data, time) ==
  IF ~Truthy(data) \/ ~TypeofObject(data)
  THEN [valid |-> FALSE, error |-> "Invalid board data: not an object"]
  ELSE IF ~Truthy(Get(data, "title")) \/ ~TypeofString(Get(data, "title"))
  THEN [valid |-> FALSE, error |-> "Missing or invalid board title"]
  ELSE IF ~IsArray(Get(data, "lists"))
  THEN [valid |-> FALSE, error |-> "Missing or invalid lists array"]
  ELSE [valid |-> TRUE,
        board |-> [id |-> Or(Get(data, "id"), JText(<<"temp", time>>)),
                   title |-> Get(data, "title").v,
                   lists |-> ValidLists(Get(data, "lists").v, time),
                   createdAt |-> Or(Get(data, "createdAt"), JText(<<time>>)),
                   lastModified |-> Or(Get(data, "lastModified"), JText(<<time>>)),
                   isArchived |-> Get(data, "isArchived") = [t |-> "boolean", v |-> TRUE]]]

\* generateNewIds: `board-${timestamp}-${random}`, `list-...-${listIndex}`,
\* `card-...-${listIndex}-${cardIndex}`, an id being the parts of its string
generateNewIds(board, timestamp, random) ==
  [board EXCEPT
     !.id = <<"board", timestamp, random>>,
     !.lists = [li \in DOMAIN board.lists |->
        [board.lists[li] EXCEPT
           !.id = <<"list", timestamp, random, li - 1>>,
           !.cards = [ci \in DOMAIN board.lists[li].cards |->
              [board.lists[li].cards[ci] EXCEPT
                 !.id = <<"card", timestamp, random, li - 1, ci - 1>>]]]]]

\* JSON.stringify of a card, a list and a board, as a JavaScript value; a
\* key whose value is undefined is left out
Defined(f) == [k \in {x \in DOMAIN f : f[x] # Undefined} |-> f[k]]
CardToJSON(card) ==
  JObj(Defined([id |-> JText(card.id), title |-> JStr(card.title),
                description |-> card.description]))
ListToJSON(list) ==
  JObj(Defined([id |-> JText(list.id), title |-> JStr(list.title),
                cards |-> JArr([c \in DOMAIN list.cards |-> CardToJSON(list.cards[c])])]))
BoardToJSON(board) ==
  JObj(Defined([id |-> JText(board.id), title |-> JStr(board.title),
                lists |-> JArr([l \in DOMAIN board.lists |-> ListToJSON(board.lists[l])]),
                createdAt |-> board.createdAt,
                lastModified |-> board.lastModified,
                isArchived |-> [t |-> "boolean", v |-> board.isArchived]]))

\* JSON.stringify(boards.value): the text of the array
JSONstringify(bs) == <<JArr([b \in DOMAIN bs |-> BoardToJSON(bs[b])])>>

\* JSON.parse(savedBoards) as Board[]: the boards the parsed array holds
CardOfJSON(x) ==
  [id |-> Get(x, "id").parts, title |-> Get(x, "title").v,
   description |-> Get(x, "description")]
ListOfJSON(x) ==
  [id |-> Get(x, "id").parts, title |-> Get(x, "title").v,
   cards |-> [c \in DOMAIN Get(x, "cards").v |-> CardOfJSON(Get(x, "cards").v[c])]]
BoardOfJSON(x) ==
  [id |-> Get(x, "id").parts, title |-> Get(x, "title").v,
   lists |-> [l \in DOMAIN Get(x, "lists").v |-> ListOfJSON(Get(x, "lists").v[l])],
   createdAt |-> Get(x, "createdAt"),
   lastModified |-> Get(x, "lastModified"),
   isArchived |-> Get(x, "isArchived").v]
BoardsOfJSON(text) ==
  [b \in DOMAIN JSONparse(text).v.v |-> BoardOfJSON(JSONparse(text).v.v[b])]

\* localStorage.getItem(key): the item, NoItem for null
NoItem == <<>>
GetItem(items, key) == IF key \in DOMAIN items THEN items[key] ELSE NoItem

\* localStorage.removeItem(key)
RemoveItem(items, key) == [k \in DOMAIN items \ {key} |-> items[k]]

\* the board the previous version of the application kept, alone, under
\* "bankan-board-data"
OldBoard ==
  JObj([id |-> JText(<<"board-1">>), title |-> JStr("a"),
        lists |-> JArr(<<JObj([id |-> JText(<<"list-1">>), title |-> JStr("a"),
                               cards |-> JArr(<<JObj([id |-> JText(<<"card-1">>),
                                                      title |-> JStr("a"),
                                                      description |-> JStr("")])>>)])>>)])

\* what localStorage holds when the application is first loaded: nothing,
\* the board of the previous version, or text under its key that is no JSON
FirstStorages ==
  {<<>>, "bankan-board-data" :> <<OldBoard>>, "bankan-board-data" :> <<LBracket>>}

\* the store as constructed, and localStorage as the browser has it then
InitLocal ==
  /\ dbBoards = <<>>
  /\ dbLists = <<>>
  /\ dbCards = <<>>
  /\ nextId = [boards |-> 1, lists |-> 1, cards |-> 1]
  /\ boards = <<>>
  /\ currentBoardId = NoId
  /\ loading = FALSE
  /\ error = "null"
  /\ now = 0
  /\ ops = [s \in Slots |-> Idle]
  /\ isEditing = [b \in 1..MaxBoards |-> FALSE]
  /\ editedTitle = [b \in 1..MaxBoards |-> <<>>]
  /\ shouldSaveOnBlur = [b \in 1..MaxBoards |-> TRUE]
  /\ focused = [b \in 1..MaxBoards |-> FALSE]
  /\ localCards = <<>>
  /\ fileContent = <<>>
  /\ importResult = JNull
  /\ localStorage \in {[items |-> items, writes |-> 0] : items \in FirstStorages}

\* the store as constructed in a browser whose localStorage is empty
InitImport == InitLocal /\ localStorage = [items |-> <<>>, writes |-> 0]

\* localStorage.setItem(key, value) on the items of the storage
SetItem(items, key, value) ==
  [k \in DOMAIN items \cup {key} |-> IF k = key THEN value ELSE items[k]]

\* saveBoards: localStorage.setItem("bankan-boards", JSON.stringify(boards.value))
\* and, with a current board, setItem("bankan-active-board-id", ...); writes
\* counts the times "bankan-boards" is set
saveBoards(st) ==
  LET saved == SetItem(st.localStorage.items, "bankan-boards", JSONstringify(st.boards))
  IN [st EXCEPT !.localStorage =
        [items |-> IF st.currentBoardId # NoId
                   THEN SetItem(saved, "bankan-active-board-id", st.currentBoardId)
                   ELSE saved,
         writes |-> st.localStorage.writes + 1]]

\* a variant of the body of the loop that numbers the boards from 0
ImportStepZeroBased(st, i, boardData, draw) ==
  LET validation == validateBoard(boardData, draw.time)
  IN IF validation.valid
     THEN [st EXCEPT
             !.boards = Append(@, [generateNewIds(validation.board, draw.time, draw.random)
                                     EXCEPT !.lastModified = JText(<<draw.time>>)]),
             !.result.imported = @ + 1]
     ELSE [st EXCEPT
             !.result.skipped = @ + 1,
             !.result.errors = Append(@, <<"Board ", i, ": ", validation.error>>)]

\* a variant of the body of the loop that saves each board it has pushed
ImportStepSaving(st, i, boardData, draw) ==
  LET validation == validateBoard(boardData, draw.time)
  IN IF validation.valid
     THEN saveBoards(
          [st EXCEPT
             !.boards = Append(@, [generateNewIds(validation.board, draw.time, draw.random)
                                     EXCEPT !.lastModified = JText(<<draw.time>>)]),
             !.result.imported = @ + 1])
     ELSE [st EXCEPT
             !.result.skipped = @ + 1,
             !.result.errors = Append(@, <<"Board ", i + 1, ": ", validation.error>>)]

\* importBoards, the body of the loop for boardsToImport[i] (i from 0); draw
\* is what Date.now() and Math.random() return in this turn.  A message is
\* the sequence of the parts of its template string.
ImportStep(st, i, boardData, draw) ==
  LET validation == validateBoard(boardData, draw.time)
  IN IF validation.valid
     THEN [st EXCEPT
             !.boards = Append(@, [generateNewIds(validation.board, draw.time, draw.random)
                                     EXCEPT !.lastModified = JText(<<draw.time>>)]),
             !.result.imported = @ + 1]
     ELSE [st EXCEPT
             !.result.skipped = @ + 1,
             !.result.errors = Append(@, <<"Board ", i + 1, ": ", validation.error>>)]

\* importBoards, the loop from turn i on
RECURSIVE ImportLoop(_, _, _, _)
ImportLoop(st, i, boardsToImport, draws) ==
  IF i >= Len(boardsToImport) THEN st
  ELSE ImportLoop(ImportStep(st, i, boardsToImport[i + 1], draws[i + 1]),
                  i + 1, boardsToImport, draws)

\* a variant of the catch block that drops the error
importCatchSilent(st, err) == st

\* importBoards, catch (error): result.errors.push(error.message)
importCatch(st, err) == [st EXCEPT !.result.errors = Append(@, <<err>>)]

\* Array.isArray(parsed) ? parsed : [parsed]
Normalized(parsed) == IF IsArray(parsed) THEN parsed.v ELSE <<parsed>>

\* importBoards(fileContent) on the store st = [boards, currentBoardId,
\* localStorage]: the store it leaves, with the result it returns
importBoards(st, content, draws) ==
  LET st0 == [boards |-> st.boards, currentBoardId |-> st.currentBoardId,
              localStorage |-> st.localStorage,
              result |-> [imported |-> 0, skipped |-> 0, errors |-> <<>>]]
      parsed == JSONparse(content)
  IN IF ~parsed.ok THEN importCatch(st0, parsed.v)
     ELSE LET st1 == ImportLoop(st0, 0, Normalized(parsed.v), draws)
          IN IF st1.result.imported > 0 THEN saveBoards(st1) ELSE st1

\* the boards the loop takes from this text
Candidates(content) ==
  IF JSONparse(content).ok THEN Normalized(JSONparse(content).v) ELSE <<>>

\* What Date.now() and Math.random() return in each turn of the loop: the
\* clock does not run backwards, and only a turn with a valid board reads
\* the two.
Draws(content) ==
  LET cands == Candidates(content)
      reads == [i \in DOMAIN cands |-> validateBoard(cands[i], now).valid]
      drawn(i) == IF reads[i] THEN [time : now..MaxTime, random : 0..MaxRandom]
                  ELSE {[time |-> now, random |-> 0]}
  IN {d \in [DOMAIN cands -> [time : now..MaxTime, random : 0..MaxRandom]] :
        /\ \A i \in DOMAIN cands : d[i] \in drawn(i)
        /\ \A i \in DOMAIN cands : \A j \in DOMAIN cands :
             (reads[i] /\ reads[j] /\ i <= j) => d[i].time <= d[j].time}

\* the clock after the loop
RECURSIVE ClockAfter(_)
ClockAfter(draws) ==
  IF draws = <<>> THEN now
  ELSE LET last == draws[Len(draws)].time
           before == ClockAfter(SubSeq(draws, 1, Len(draws) - 1))
       IN IF last > before THEN last ELSE before

\* DashboardView.handleFileSelected: content = await file.text(),
\* importResult.value = boardsStore.importBoards(content)
handleFileSelected(content, draws) ==
  /\ LET st == importBoards([boards |-> boards, currentBoardId |-> currentBoardId,
                             localStorage |-> localStorage], content, draws)
     IN /\ boards' = st.boards
        /\ localStorage' = st.localStorage
        /\ importResult' = st.result
  /\ fileContent' = content
  /\ now' = ClockAfter(draws)
  /\ UNCHANGED <<dbVars, currentBoardId, loading, error, ops, cardVars>>

\* DashboardView.closeImportResult
closeImportResult ==
  /\ importResult # JNull
  /\ importResult' = JNull
  /\ UNCHANGED <<dbVars, memVars, now, ops, cardVars, fileContent, localStorage>>

\* The import into the storage-only store.
NextImport ==
  \/ Len(boards) <= MaxStored /\ \E content \in Files : \E draws \in Draws(content) :
       handleFileSelected(content, draws)
  \/ closeImportResult
  \/ Tick

SpecImport == InitImport /\ [][NextImport]_vars

\* ---------------------------------------------------------------- the drag
\* A ListContainer shows localCards, its copy of props.list.cards, in a
\* vuedraggable of group "cards".  localCards[l] holds the copy with the
\* value of props.list.cards the watcher has seen last.

\* the lists of board b as they are shown
ShownLists(b) == Ids(ListsOf(boards, b))

\* every watcher has run: each list shown has a copy of the cards it has now
Flushed(b) ==
  \A l \in ShownLists(b) :
    l \in DOMAIN localCards /\ localCards[l].seen = CardsIn(boards, b, l)

\* ListContainer: localCards = ref([...props.list.cards]) when the list is
\* first shown, and watch(() => props.list.cards, ..., { deep: true })
watchCards(b, l) ==
  /\ l \in ShownLists(b)
  /\ ~(l \in DOMAIN localCards /\ localCards[l].seen = CardsIn(boards, b, l))
  /\ localCards' = [x \in DOMAIN localCards \cup {l} |->
                      IF x = l THEN [cards |-> CardsIn(boards, b, l),
                                     seen |-> CardsIn(boards, b, l)]
                      ELSE localCards[x]]
  /\ UNCHANGED <<dbVars, memVars, now, ops, isEditing, editedTitle,
                 shouldSaveOnBlur, focused, importVars>>

\* seq with x put in at index (from 0)
InsertAt(seq, index, x) ==
  SubSeq(seq, 1, index) \o <<x>> \o SubSeq(seq, index + 1, Len(seq))

\* the indices at which a card can be dropped among the cards shown in list
\* to, the card itself not counted
DropIndices(to, c) == 0..Len(FilterOutId(localCards[to].cards, c))

\* The user drags card c from list `from` and drops it at index in list
\* `to`: vuedraggable takes the card out of the v-model of the list it came
\* from and puts it into the v-model of the list it is dropped in, and
\* emits "end" in the list the drag started in, whose handleDragEnd calls
\* updateCardPositions with its own localCards.
dragCard(s, b, from, to, c, index) ==
  /\ Flushed(b)
  /\ from \in ShownLists(b) /\ to \in ShownLists(b)
  /\ c \in Ids(localCards[from].cards)
  /\ index \in DropIndices(to, c)
  /\ LET card == localCards[from].cards[IndexOfId(localCards[from].cards, c)]
         left == FilterOutId(localCards[from].cards, c)
         into == InsertAt(FilterOutId(localCards[to].cards, c), index, card)
     IN /\ localCards' = [x \in DOMAIN localCards |->
                            IF x = to THEN [localCards[x] EXCEPT !.cards = into]
                            ELSE IF x = from THEN [localCards[x] EXCEPT !.cards = left]
                            ELSE localCards[x]]
        /\ updateCardPositions(s, b, from, IF from = to THEN into ELSE left)
  /\ UNCHANGED <<isEditing, editedTitle, shouldSaveOnBlur, focused>>

\* The board view: lists and cards are added, cards are dragged within a
\* list and from list to list; every request is served without error.
NextDrag ==
  \/ nextId.boards <= MaxBoards /\ \E t \in CreateTitles : createBoard(1, t)
  \/ ItemsLeft(MaxDragItems) /\ \E b \in KnownBoards, t \in ItemTitles : addList(1, b, t)
  \/ ItemsLeft(MaxDragItems) /\ \E b \in KnownBoards, l \in KnownLists, t \in ItemTitles :
       addCard(1, b, l, t)
  \/ \E b \in KnownBoards, l \in KnownLists : watchCards(b, l)
  \/ \E b \in KnownBoards, from \in KnownLists, to \in KnownLists, c \in KnownCards :
       \E index \in 0..MaxDragItems : dragCard(1, b, from, to, c, index)
  \/ DbInsertBoard(1) \/ DbInsertList(1) \/ DbInsertCard(1)
  \/ DbUpsertCards(1) \/ DbTouchBoard(1)
  \/ Touched(1) \/ createBoardResume(1) \/ addListResume(1)
  \/ addCardResume(1) \/ updateCardPositionsResume(1)

SpecDrag == Init /\ [][NextDrag]_vars

\* moveCard: lists and cards are added and cards are moved from list to
\* list by the store's moveCard, which no component calls.
NextMove ==
  \/ nextId.boards <= MaxBoards /\ \E t \in CreateTitles : createBoard(1, t)
  \/ ItemsLeft(MaxDragItems) /\ \E b \in KnownBoards, t \in ItemTitles : addList(1, b, t)
  \/ ItemsLeft(MaxDragItems) /\ \E b \in KnownBoards, l \in KnownLists, t \in ItemTitles :
       addCard(1, b, l, t)
  \/ \E b \in KnownBoards, l \in KnownLists, c \in KnownCards :
       \E p \in DropPositions(b, l, c) : moveCard(1, b, l, l, c, p)
  \/ DbFail(1) \/ DbInsertBoard(1) \/ DbInsertList(1) \/ DbInsertCard(1)
  \/ DbUpdateCardList(1) \/ DbSelectBoard(1) \/ DbTouchBoard(1)
  \/ Throws(1) \/ Touched(1) \/ createBoardResume(1) \/ addListResume(1)
  \/ addCardResume(1) \/ moveCardResume(1) \/ moveCardRefetched(1)

SpecMove == Init /\ [][NextMove]_vars

\* ------------------------------------------------------------ overlapping calls
\* Nothing in the store serialises its operations: a second call can start
\* while the first is suspended at an await.  Two calls are in flight at
\* most.  The collection: boards are created and fetched.
NextRace ==
  \/ \E s \in Slots : nextId.boards <= MaxBoards /\ \E t \in CreateTitles : createBoard(s, t)
  \/ \E s \in Slots : fetchBoards(s)
  \/ \E s \in Slots : \E b \in KnownBoards : fetchBoardById(s, b)
  \/ \E s \in Slots : DbFail(s)
  \/ \E s \in Slots : DbInsertBoard(s)
  \/ \E s \in Slots : DbSelectAll(s)
  \/ \E s \in Slots : DbSelectBoard(s)
  \/ \E s \in Slots : Throws(s)
  \/ \E s \in Slots : createBoardResume(s)
  \/ \E s \in Slots : fetchBoardsResume(s)
  \/ \E s \in Slots : fetchBoardByIdResume(s)

SpecRace == Init /\ [][NextRace]_vars

\* The board view: lists and cards are added to a board and to lists that
\* are in memory, two calls in flight at most.  addList and addCard hold the
\* board and the list they found before the await; no operation here
\* replaces a board or a list in memory, so what they hold is what
\* getBoardById finds when they resume.
NextRaceItems ==
  \/ nextId.boards <= MaxBoards /\ \E t \in CreateTitles : createBoard(1, t)
  \/ \E s \in Slots : ItemsLeft(MaxRaceItems)
       /\ \E b \in Ids(boards), t \in ItemTitles : addList(s, b, t)
  \/ \E s \in Slots : ItemsLeft(MaxRaceItems)
       /\ \E b \in Ids(boards) : \E l \in Ids(ListsOf(boards, b)), t \in ItemTitles :
            addCard(s, b, l, t)
  \/ \E s \in Slots : DbFail(s)
  \/ \E s \in Slots : DbInsertBoard(s)
  \/ \E s \in Slots : DbInsertList(s)
  \/ \E s \in Slots : DbInsertCard(s)
  \/ \E s \in Slots : DbTouchBoard(s)
  \/ \E s \in Slots : Throws(s)
  \/ \E s \in Slots : Touched(s)
  \/ \E s \in Slots : createBoardResume(s)
  \/ \E s \in Slots : addListResume(s)
  \/ \E s \in Slots : addCardResume(s)

SpecRaceItems == Init /\ [][NextRaceItems]_vars

\* --------------------------------------------------------- the title editor
\* BoardCard.cancelEdit (Esc)
cancelEdit(b) ==
  /\ getBoardById(b) > 0
  /\ isEditing[b]
  /\ shouldSaveOnBlur' = [shouldSaveOnBlur EXCEPT ![b] = FALSE]
  /\ editedTitle' = [editedTitle EXCEPT ![b] = CharsOf(boards[getBoardById(b)].title)]
  /\ isEditing' = [isEditing EXCEPT ![b] = FALSE]
  /\ UNCHANGED <<dbVars, memVars, now, ops, focused, localCards, importVars>>

\* a variant of handleBlur that saves whatever shouldSaveOnBlur says
handleBlurUnguarded(s, b) ==
  /\ focused[b]
  /\ focused' = [focused EXCEPT ![b] = FALSE]
  /\ IF Trim(editedTitle[b]) # <<>>
     THEN handleRename(s, b, Str(Trim(editedTitle[b])))
     ELSE UNCHANGED <<dbVars, memVars, now, ops, importVars>>
  /\ isEditing' = [isEditing EXCEPT ![b] = FALSE]
  /\ UNCHANGED <<editedTitle, shouldSaveOnBlur, localCards>>

\* BoardCard.handleBlur: the input that had the focus loses it, because the
\* user leaves it or because it is taken out of the page when isEditing
\* becomes false; saveEdit runs if shouldSaveOnBlur is true
handleBlur(s, b) ==
  /\ focused[b]
  /\ focused' = [focused EXCEPT ![b] = FALSE]
  /\ IF shouldSaveOnBlur[b] /\ Trim(editedTitle[b]) # <<>>
     THEN handleRename(s, b, Str(Trim(editedTitle[b])))
     ELSE UNCHANGED <<dbVars, memVars, now, ops, importVars>>
  /\ isEditing' = IF shouldSaveOnBlur[b] THEN [isEditing EXCEPT ![b] = FALSE]
                  ELSE isEditing
  /\ UNCHANGED <<editedTitle, shouldSaveOnBlur, localCards>>

\* The card of a board on the dashboard: its title is edited, saved with
\* Enter or by leaving the input, or the edit is cancelled with Esc.
NextEdit ==
  \/ nextId.boards <= MaxBoards /\ \E t \in Typed : DashboardCreateBoard(1, t)
  \/ \E b \in KnownBoards : startEditing(b)
  \/ \E b \in KnownBoards, t \in Typed : typeTitle(b, t)
  \/ \E b \in KnownBoards : saveEdit(1, b)
  \/ \E b \in KnownBoards : handleBlur(1, b)
  \/ \E b \in KnownBoards : cancelEdit(b)
  \/ DbFail(1) \/ DbInsertBoard(1) \/ DbUpdateBoardTitle(1)
  \/ Throws(1) \/ createBoardResume(1) \/ updateBoardTitleResume(1)

SpecEdit == Init /\ [][NextEdit]_vars

\* ------------------------------------------------------- memory and database
\* The operations on the lists and cards of a board, one at a time, every
\* request served without error.
NextSync ==
  \/ \E b \in KnownBoards : fetchBoardById(1, b)
  \/ nextId.boards <= MaxBoards /\ \E t \in CreateTitles : createBoard(1, t)
  \/ ItemsLeft(MaxOrderItems) /\ \E b \in KnownBoards, t \in ItemTitles : addList(1, b, t)
  \/ \E b \in KnownBoards, l \in KnownLists, t \in ItemTitles : updateList(1, b, l, t)
  \/ \E b \in KnownBoards, l \in KnownLists : deleteList(1, b, l)
  \/ ItemsLeft(MaxOrderItems) /\ \E b \in KnownBoards, l \in KnownLists, t \in ItemTitles :
       addCard(1, b, l, t)
  \/ \E b \in KnownBoards, l \in KnownLists, c \in KnownCards, t \in ItemTitles :
       updateCard(1, b, l, c, t)
  \/ \E b \in KnownBoards, l \in KnownLists, c \in KnownCards : deleteCard(1, b, l, c)
  \/ \E b \in KnownBoards : \E lists \in ArraysOver(ListObjects(b)) :
       updateListPositions(1, b, lists)
  \/ \E b \in KnownBoards, l \in KnownLists : \E cards \in ArraysOver(CardObjects(b, l)) :
       updateCardPositions(1, b, l, cards) /\ UNCHANGED cardVars
  \/ \E b \in KnownBoards, l \in KnownLists, c \in KnownCards :
       \E p \in DropPositions(b, l, c) : moveCard(1, b, l, l, c, p)
  \/ DbSelectBoard(1) \/ DbInsertBoard(1) \/ DbTouchBoard(1)
  \/ DbInsertList(1) \/ DbUpdateListTitle(1) \/ DbDeleteList(1) \/ DbUpsertLists(1)
  \/ DbInsertCard(1) \/ DbUpdateCardTitle(1) \/ DbDeleteCard(1) \/ DbUpsertCards(1)
  \/ DbUpdateCardList(1)
  \/ Touched(1)
  \/ fetchBoardByIdResume(1) \/ createBoardResume(1)
  \/ addListResume(1) \/ updateListResume(1) \/ deleteListResume(1)
  \/ addCardResume(1) \/ updateCardResume(1) \/ deleteCardResume(1)
  \/ updateListPositionsResume(1) \/ updateCardPositionsResume(1)
  \/ moveCardResume(1) \/ moveCardRefetched(1)

SpecSync == Init /\ [][NextSync]_vars

\* ------------------------------------------------- the storage-only store
\* The operations of the storage-only store (src/unnamed/part_004) are
\* synchronous; where the other store has an operation of the same name,
\* the name here ends in Local.  An id is the sequence of the parts of its
\* template string; `null` as currentBoardId is NoId.

\* what an operation leaves in localStorage when it ends with saveBoards()
Saved(bs, cur) ==
  saveBoards([boards |-> bs, currentBoardId |-> cur, localStorage |-> localStorage]).localStorage

\* new Date().toISOString()
ISOString == JText(<<now>>)

\* the board with its lastModified set to the time it is
Modified(board) == [board EXCEPT !.lastModified = ISOString]

\* a variant of createBoard that does not save
createBoardLocalUnsaved(title) ==
  /\ boards' = Append(boards, [id |-> <<"board", now>>, title |-> title, lists |-> <<>>,
                               createdAt |-> ISOString, lastModified |-> ISOString,
                               isArchived |-> FALSE])
  /\ UNCHANGED <<dbVars, currentBoardId, loading, error, now, ops, cardVars, importVars>>

\* createBoard: id `board-${Date.now()}`
createBoardLocal(title) ==
  /\ boards' = Append(boards, [id |-> <<"board", now>>, title |-> title, lists |-> <<>>,
                               createdAt |-> ISOString, lastModified |-> ISOString,
                               isArchived |-> FALSE])
  /\ localStorage' = Saved(boards', currentBoardId)
  /\ UNCHANGED <<dbVars, currentBoardId, loading, error, now, ops, cardVars,
                 fileContent, importResult>>

\* an operation that changes board boardId to changed and saves, and does
\* nothing when the board is not there
ChangeBoard(boardId, changed) ==
  /\ getBoardById(boardId) > 0
  /\ boards' = [boards EXCEPT ![getBoardById(boardId)] = Modified(changed)]
  /\ localStorage' = Saved(boards', currentBoardId)
  /\ UNCHANGED <<dbVars, currentBoardId, loading, error, now, ops, cardVars,
                 fileContent, importResult>>

updateBoardTitleLocal(boardId, newTitle) ==
  ChangeBoard(boardId, [boards[getBoardById(boardId)] EXCEPT !.title = newTitle])

deleteBoardLocal(boardId) ==
  /\ boards' = FilterOutId(boards, boardId)
  /\ currentBoardId' = IF currentBoardId = boardId THEN NoId ELSE currentBoardId
  /\ localStorage' = Saved(boards', currentBoardId')
  /\ UNCHANGED <<dbVars, loading, error, now, ops, cardVars, fileContent, importResult>>

archiveBoardLocal(boardId) ==
  ChangeBoard(boardId, [boards[getBoardById(boardId)] EXCEPT !.isArchived = TRUE])

unarchiveBoardLocal(boardId) ==
  ChangeBoard(boardId, [boards[getBoardById(boardId)] EXCEPT !.isArchived = FALSE])

\* setCurrentBoard: also sets "bankan-active-board-id"
setCurrentBoardLocal(boardId) ==
  /\ getBoardById(boardId) > 0
  /\ currentBoardId' = boardId
  /\ localStorage' = [localStorage EXCEPT
                        !.items = SetItem(@, "bankan-active-board-id", boardId)]
  /\ UNCHANGED <<dbVars, boards, loading, error, now, ops, cardVars,
                 fileContent, importResult>>

\* addList: id `list-${Date.now()}`
addListLocal(boardId, title) ==
  ChangeBoard(boardId,
    [boards[getBoardById(boardId)] EXCEPT
       !.lists = Append(@, [id |-> <<"list", now>>, title |-> title, cards |-> <<>>])])

\* an operation that changes list listId of board boardId to changed
ChangeList(boardId, listId, changed) ==
  /\ getBoardById(boardId) > 0
  /\ getListIndex(getBoardById(boardId), listId) > 0
  /\ ChangeBoard(boardId,
       [boards[getBoardById(boardId)] EXCEPT
          !.lists[getListIndex(getBoardById(boardId), listId)] = changed])

\* the list listId of board boardId
TheList(boardId, listId) ==
  boards[getBoardById(boardId)].lists[getListIndex(getBoardById(boardId), listId)]

updateListLocal(boardId, listId, newTitle) ==
  ChangeList(boardId, listId, [TheList(boardId, listId) EXCEPT !.title = newTitle])

deleteListLocal(boardId, listId) ==
  ChangeBoard(boardId,
    [boards[getBoardById(boardId)] EXCEPT !.lists = FilterOutId(@, listId)])

\* addCard: id `card-${Date.now()}`, description ""
addCardLocal(boardId, listId, cardTitle) ==
  ChangeList(boardId, listId,
    [TheList(boardId, listId) EXCEPT
       !.cards = Append(@, [id |-> <<"card", now>>, title |-> cardTitle,
                            description |-> JStr("")])])

updateCardLocal(boardId, listId, cardId, newTitle) ==
  /\ IndexOfId(CardsIn(boards, boardId, listId), cardId) > 0
  /\ ChangeList(boardId, listId,
       [TheList(boardId, listId) EXCEPT
          !.cards[IndexOfId(CardsIn(boards, boardId, listId), cardId)].title = newTitle])

deleteCardLocal(boardId, listId, cardId) ==
  ChangeList(boardId, listId,
    [TheList(boardId, listId) EXCEPT !.cards = FilterOutId(@, cardId)])

\* migrateFromOldFormat on the store st = [boards, currentBoardId, localStorage]
migrateFromOldFormat(st) ==
  LET oldData == GetItem(st.localStorage.items, "bankan-board-data")
  IN IF oldData = NoItem THEN st
     ELSE IF ~JSONparse(oldData).ok THEN st
     ELSE LET oldBoard == JSONparse(oldData).v
              migratedBoard ==
                [id |-> Get(oldBoard, "id").parts, title |-> Get(oldBoard, "title").v,
                 lists |-> [l \in DOMAIN Get(oldBoard, "lists").v |->
                              ListOfJSON(Get(oldBoard, "lists").v[l])],
                 createdAt |-> ISOString, lastModified |-> ISOString,
                 isArchived |-> FALSE]
              saved == saveBoards([st EXCEPT !.boards = Append(@, migratedBoard),
                                             !.currentBoardId = migratedBoard.id])
          IN [saved EXCEPT !.localStorage.items = RemoveItem(@, "bankan-board-data")]

createDefaultBoard(st) ==
  LET defaultBoard ==
        [id |-> <<"board", now>>, title |-> "My First Board",
         lists |-> <<[id |-> <<"list-backlog">>, title |-> "Backlog", cards |-> <<>>],
                     [id |-> <<"list-in-progress">>, title |-> "In Progress", cards |-> <<>>],
                     [id |-> <<"list-done">>, title |-> "Done", cards |-> <<>>]>>,
         createdAt |-> ISOString, lastModified |-> ISOString, isArchived |-> FALSE]
  IN saveBoards([st EXCEPT !.boards = Append(@, defaultBoard),
                           !.currentBoardId = defaultBoard.id])

initializeBoards(st) ==
  LET savedBoards == GetItem(st.localStorage.items, "bankan-boards")
      savedActiveId == GetItem(st.localStorage.items, "bankan-active-board-id")
      loaded == IF savedBoards # NoItem
                THEN [st EXCEPT !.boards = BoardsOfJSON(savedBoards),
                                !.currentBoardId = savedActiveId]
                ELSE migrateFromOldFormat(st)
  IN IF Len(loaded.boards) = 0 THEN createDefaultBoard(loaded) ELSE loaded

\* The page is loaded, for the first time or again: the store is set up
\* with its refs as constructed, and initializeBoards() is called.
loadPage ==
  /\ LET st == initializeBoards([boards |-> <<>>, currentBoardId |-> NoId,
                                 localStorage |-> localStorage])
     IN /\ boards' = st.boards
        /\ currentBoardId' = st.currentBoardId
        /\ localStorage' = st.localStorage
  /\ UNCHANGED <<dbVars, loading, error, now, ops, cardVars, fileContent, importResult>>

\* exportBoard: the text of the file it has the browser download,
\* JSON.stringify(board, null, 2)
exportBoard(boardId) == <<BoardToJSON(boards[getBoardById(boardId)])>>

\* the user exports a board and selects the file for import
importExported(boardId, draws) ==
  /\ getBoardById(boardId) > 0
  /\ handleFileSelected(exportBoard(boardId), draws)

\* the lists and cards the collection holds
RECURSIVE Sum(_)
Sum(seq) == IF seq = <<>> THEN 0 ELSE Head(seq) + Sum(Tail(seq))
LocalItems ==
  Sum([b \in DOMAIN boards |->
         Len(boards[b].lists)
         + Sum([l \in DOMAIN boards[b].lists |-> Len(boards[b].lists[l].cards)])])

\* the ids of the lists of all boards, and of the cards of all lists
AllListIds == UNION {Ids(boards[b].lists) : b \in DOMAIN boards}
AllCardIds ==
  UNION {UNION {Ids(boards[b].lists[l].cards) : l \in DOMAIN boards[b].lists} :
           b \in DOMAIN boards}

LocalTitles == {"", "a"}

\* "bankan-boards" has been set fewer than MaxWrites times
CanSave == localStorage.writes < MaxWrites

\* The storage-only store: its operations, the page loaded again, a board
\* exported and imported once the result of the import before is closed,
\* and the clock.
NextLocal ==
  \/ CanSave /\ Len(boards) <= MaxStored /\ \E t \in LocalTitles : createBoardLocal(t)
  \/ CanSave /\ \E b \in Ids(boards), t \in LocalTitles : updateBoardTitleLocal(b, t)
  \/ CanSave /\ \E b \in Ids(boards) : deleteBoardLocal(b)
  \/ CanSave /\ \E b \in Ids(boards) : archiveBoardLocal(b)
  \/ CanSave /\ \E b \in Ids(boards) : unarchiveBoardLocal(b)
  \/ \E b \in Ids(boards) : setCurrentBoardLocal(b)
  \/ CanSave /\ LocalItems < MaxLocalItems
       /\ \E b \in Ids(boards), t \in LocalTitles : addListLocal(b, t)
  \/ CanSave /\ \E b \in Ids(boards), l \in AllListIds, t \in LocalTitles :
       updateListLocal(b, l, t)
  \/ CanSave /\ \E b \in Ids(boards), l \in AllListIds : deleteListLocal(b, l)
  \/ CanSave /\ LocalItems < MaxLocalItems
       /\ \E b \in Ids(boards), l \in AllListIds, t \in LocalTitles : addCardLocal(b, l, t)
  \/ CanSave /\ \E b \in Ids(boards), l \in AllListIds, c \in AllCardIds, t \in LocalTitles :
       updateCardLocal(b, l, c, t)
  \/ CanSave /\ \E b \in Ids(boards), l \in AllListIds, c \in AllCardIds :
       deleteCardLocal(b, l, c)
  \/ loadPage
  \/ CanSave /\ Len(boards) <= MaxStored /\ importResult = JNull
       /\ \E b \in Ids(boards) : \E draws \in Draws(exportBoard(b)) : importExported(b, draws)
  \/ closeImportResult
  \/ Tick

SpecLocal == InitLocal /\ [][NextLocal]_vars

\* ================================================================ claims
Mutating ==
  {"createBoard", "updateBoardTitle", "deleteBoard", "archiveBoard",
   "unarchiveBoard", "addList", "updateList", "deleteList", "addCard",
   "updateCard", "deleteCard", "updateListPositions", "updateCardPositions",
   "moveCard"}

PositionsOf(seq) == {seq[i].position : i \in DOMAIN seq}
HasDuplicateIds(seq) == \E i, j \in DOMAIN seq : i # j /\ seq[i].id = seq[j].id
Dense(seq) ==
  /\ PositionsOf(seq) = 0..(Len(seq) - 1)
  /\ \A i, j \in DOMAIN seq : i # j => seq[i].position # seq[j].position

\* C1: when a persistence call of a mutating operation has failed, the call
\* has not changed boards or currentBoardId: they are what they were before
\* the call.
C1_FailedCallLeavesMemory ==
  \A s \in Slots :
    (ops[s].kind \in Mutating /\ ops[s].failed) => ~ops[s].dirty

\* C2: the lastModified of a board in memory never decreases from one state
\* to the next.
C2_LastModifiedMonotone ==
  [][\A i \in DOMAIN boards : \A j \in DOMAIN boards' :
       boards[i].id = boards'[j].id
         => boards'[j].lastModified >= boards[i].lastModified]_vars

\* C3: when a mutating operation on a board, a list or a card returns with
\* every persistence call succeeded, the lastModified of the board in memory
\* and its updated_at in the database are no earlier than the call.
C3_SuccessBumpsLastModified ==
  [][\A s \in Slots :
       (/\ ops[s].kind \in Mutating \ {"createBoard", "deleteBoard"}
        /\ InFlight(s) /\ ops'[s].pc = "done" /\ ~ops'[s].failed
        /\ IndexOfId(boards', ops[s].bid) > 0
        /\ ops[s].bid \in DOMAIN dbBoards')
       => /\ boards'[IndexOfId(boards', ops[s].bid)].lastModified >= ops[s].t0
          /\ dbBoards'[ops[s].bid].updated_at >= ops[s].t0]_vars

\* C4: once updateListPositions has succeeded, the lists of the board in
\* memory are the supplied sequence, the list at index i with position i
\* (0-based), so the positions are exactly 0..n-1 without duplicates; the
\* same for updateCardPositions and the cards of the list.
C4_ReorderRewritesPositions ==
  \A s \in Slots :
    LET op == ops[s]
        now_ == IF op.kind = "updateListPositions"
                THEN ListsOf(boards, op.bid)
                ELSE CardsIn(boards, op.bid, op.lid)
        there == IF op.kind = "updateListPositions"
                 THEN getBoardById(op.bid) > 0
                 ELSE IndexOfId(ListsOf(boards, op.bid), op.lid) > 0
    IN (/\ op.kind \in {"updateListPositions", "updateCardPositions"}
        /\ op.stage = 2 /\ there)
       => /\ Len(now_) = Len(op.items)
          /\ \A i \in DOMAIN now_ :
               /\ now_[i].id = op.items[i].id
               /\ now_[i].title = op.items[i].title
               /\ now_[i].position = i - 1
          /\ Dense(now_)

\* two lists have been swapped by updateListPositions
C4_Witness ==
  \E s \in Slots :
    /\ ops[s].kind = "updateListPositions" /\ ops[s].stage = 2
    /\ Len(ops[s].items) = 2
    /\ ops[s].items[1].position > ops[s].items[2].position
    /\ Len(ListsOf(boards, ops[s].bid)) = 2

\* C5: while updateListPositions is in flight, every step leaves the lists
\* of the board in memory as they were, or gives every list its index in the
\* supplied sequence as position and keeps the set of lists.
C5_ReorderAtomic ==
  [][\A s \in Slots :
       (ops[s].kind = "updateListPositions" /\ InFlight(s)
        /\ getBoardById(ops[s].bid) > 0)
       => LET old == ListsOf(boards, ops[s].bid)
              new == ListsOf(boards', ops[s].bid)
          IN \/ new = old
             \/ /\ Ids(new) = Ids(old)
                /\ \A i \in DOMAIN new :
                     \E k \in DOMAIN ops[s].items :
                       ops[s].items[k].id = new[i].id /\ new[i].position = k - 1]_vars

\* C6: when moveCard returns after its update and its refetch succeeded, the
\* cards of the destination list in memory have unique, dense positions.
C6_MoveKeepsDestinationDense ==
  [][\A s \in Slots :
       (/\ ops[s].kind = "moveCard" /\ ops[s].stage = 2 /\ ops[s].pc = "back"
        /\ ops[s].ok /\ ops'[s].pc = "done")
       => Dense(CardsIn(boards', ops[s].bid, ops[s].lid))]_vars

\* C7: a reorder with an empty sequence changes neither the lists of the
\* board in memory (updateListPositions) nor the cards of the list in memory
\* (updateCardPositions).
C7_EmptyReorderIsNoOp ==
  [][\A s \in Slots :
       (ops[s].items = <<>> /\ InFlight(s))
       => /\ ops[s].kind = "updateListPositions"
               => ListsOf(boards', ops[s].bid) = ListsOf(boards, ops[s].bid)
          /\ ops[s].kind = "updateCardPositions"
               => CardsIn(boards', ops[s].bid, ops[s].lid)
                    = CardsIn(boards, ops[s].bid, ops[s].lid)]_vars

\* C8: a reorder whose supplied order holds the same id twice is rejected:
\* no request is sent to the database for it, and no two lists of a board
\* and no two cards of a list in memory share an id.
C8_DuplicateIdsRejected ==
  /\ \A s \in Slots :
       (ops[s].kind \in {"updateListPositions", "updateCardPositions"}
        /\ HasDuplicateIds(ops[s].items)) => ~InFlight(s)
  /\ \A i \in DOMAIN boards :
       /\ ~HasDuplicateIds(boards[i].lists)
       /\ \A k \in DOMAIN boards[i].lists : ~HasDuplicateIds(boards[i].lists[k].cards)

\* C9: once addList has inserted its list, the list is the last of the
\* board in memory and its position is the largest position among the other
\* lists plus one, 0 when there is no other; the same for addCard and the
\* cards of its list.
C9_AppendAtMaxPlusOne ==
  \A s \in Slots :
    LET op == ops[s]
        now_ == IF op.kind = "addList"
                THEN ListsOf(boards, op.bid)
                ELSE CardsIn(boards, op.bid, op.lid)
        there == IF op.kind = "addList"
                 THEN getBoardById(op.bid) > 0
                 ELSE IndexOfId(ListsOf(boards, op.bid), op.lid) > 0
        newId == IF op.kind = "addList" THEN op.lid ELSE op.cid
        others == SubSeq(now_, 1, Len(now_) - 1)
        top == {p \in PositionsOf(others) : \A q \in PositionsOf(others) : q <= p}
    IN (op.kind \in {"addList", "addCard"} /\ op.stage = 2 /\ there)
       => /\ Len(now_) >= 1
          /\ now_[Len(now_)].id = newId
          /\ others = <<>> => now_[Len(now_)].position = 0
          /\ \A p \in top : now_[Len(now_)].position = p + 1

\* a card was added and deleted, and the card added next is the only card
\* of its list, at position 0
C9_Witness ==
  \E s \in Slots :
    /\ ops[s].kind = "addCard" /\ ops[s].stage = 2 /\ ops[s].cid = 2
    /\ Len(CardsIn(boards, ops[s].bid, ops[s].lid)) = 1
    /\ CardsIn(boards, ops[s].bid, ops[s].lid)[1].id = 2
    /\ CardsIn(boards, ops[s].bid, ops[s].lid)[1].position = 0

\* C10: every operation that has returned has resolved its promise, never
\* rejected it, also when a persistence call failed; createBoard and
\* fetchBoardById then resolve to null.
C10_SilentFail ==
  \A s \in Slots :
    ops[s].pc = "done"
      => /\ ops[s].settled = "resolved"
         /\ (ops[s].kind \in {"createBoard", "fetchBoardById"} /\ ops[s].failed)
              => ops[s].ret = "null"
         /\ (ops[s].kind \in {"createBoard", "fetchBoardById"} /\ ~ops[s].failed)
              => ops[s].ret = "value"

\* createBoard has returned null after its insert failed
C10_Witness ==
  \E s \in Slots :
    /\ ops[s].pc = "done" /\ ops[s].kind = "createBoard"
    /\ ops[s].failed /\ ops[s].ret = "null" /\ ops[s].settled = "resolved"

\* a stored title that is empty after trimming
Blank(title) == \E t \in Typed : Str(t) = title /\ Trim(t) = <<>>

\* C11: createBoard with a title that is empty after trimming is refused
\* before anything is written: no insert for such a title is ever sent to
\* the database (and so no board with it is ever added to boards).
C11_BlankTitleRefused ==
  \A s \in Slots :
    (ops[s].kind = "createBoard" /\ Blank(ops[s].title)) => ~InFlight(s)

\* C13: when saveEdit runs on a title that is empty after trimming, the
\* update is skipped: no request is sent, and boards and the table boards
\* are unchanged, so the titles are retained; and when it runs on any other
\* title, the rename it asks for carries the trimmed title, which is not
\* empty.
C13_BlankRenameSkipped ==
  [][\A b \in 1..MaxBoards :
       (isEditing[b] /\ ~isEditing'[b])
       => IF Trim(editedTitle[b]) = <<>>
          THEN ops' = ops /\ boards' = boards /\ dbBoards' = dbBoards
          ELSE /\ ops'[1].kind = "updateBoardTitle" /\ ops'[1].pc = "sent"
               /\ ops'[1].title = Str(Trim(editedTitle[b]))
               /\ ~Blank(ops'[1].title)]_vars

\* saveEdit has run on a typed title of blanks only: the card has left the
\* editing mode, no call is in flight and the board keeps its title
C13_Witness ==
  \E b \in 1..MaxBoards :
    /\ ~isEditing[b]
    /\ editedTitle[b] # <<>> /\ Trim(editedTitle[b]) = <<>>
    /\ getBoardById(b) > 0 /\ ~Blank(boards[getBoardById(b)].title)
    /\ dbBoards[b].title = boards[getBoardById(b)].title
    /\ Free(1)

\* C12: when updateBoardTitle, archiveBoard, unarchiveBoard or deleteBoard
\* returns from a call with an id that is the id of no board, in memory or
\* in the database, and the database has answered its request, the call has
\* failed (its promise is rejected or the store's error is set) and boards
\* is unchanged.
C12_UnknownIdFails ==
  [][\A s \in Slots :
       (/\ ops[s].kind \in {"updateBoardTitle", "archiveBoard",
                            "unarchiveBoard", "deleteBoard"}
        /\ InFlight(s) /\ ops'[s].pc = "done" /\ ~ops'[s].failed
        /\ getBoardById(ops[s].bid) = 0
        /\ ops[s].bid \notin DOMAIN dbBoards)
       => /\ ops'[s].settled = "rejected" \/ error' = "message"
          /\ boards' = boards]_vars

\* C14: the step of deleteList that removes the list from memory keeps every
\* other list of the board as it is, position included, in the same order;
\* the same for deleteCard and the cards of the list; and while either is in
\* flight no row that stays in lists or cards changes its position.
C14_DeleteKeepsSiblingPositions ==
  [][\A s \in Slots :
       /\ (ops[s].kind = "deleteList" /\ ops[s].stage = 1 /\ ops'[s].stage = 2)
            => ListsOf(boards', ops[s].bid)
                 = SelectSeq(ListsOf(boards, ops[s].bid),
                             LAMBDA l : l.id # ops[s].lid)
       /\ (ops[s].kind = "deleteCard" /\ ops[s].stage = 1 /\ ops'[s].stage = 2)
            => CardsIn(boards', ops[s].bid, ops[s].lid)
                 = SelectSeq(CardsIn(boards, ops[s].bid, ops[s].lid),
                             LAMBDA c : c.id # ops[s].cid)
       /\ (ops[s].kind \in {"deleteList", "deleteCard"} /\ InFlight(s))
            => /\ \A l \in DOMAIN dbLists' :
                    dbLists'[l].position = dbLists[l].position
               /\ \A c \in DOMAIN dbCards' :
                    dbCards'[c].position = dbCards[c].position]_vars

\* deleteList has removed the first of two lists: the list that is left
\* keeps position 1
C14_Witness ==
  \E s \in Slots :
    /\ ops[s].kind = "deleteList" /\ ops[s].stage = 2
    /\ Len(ListsOf(boards, ops[s].bid)) = 1
    /\ ListsOf(boards, ops[s].bid)[1].position = 1
    /\ ListsOf(boards, ops[s].bid)[1].id # ops[s].lid

\* the largest index at which id occurs in seq
LastIndexOfId(seq, id) ==
  CHOOSE i \in DOMAIN seq :
    seq[i].id = id /\ \A j \in DOMAIN seq : seq[j].id = id => j <= i

\* the rows of the supplied lists hold the index positions of the sequence
RowsReordered(bid, items) ==
  \A i \in DOMAIN items :
    /\ items[i].id \in DOMAIN dbLists
    /\ dbLists[items[i].id] =
         [board_id |-> bid, title |-> items[i].title,
          position |-> LastIndexOfId(items, items[i].id) - 1]

\* the call in slot s repeats a reorder: the sequence it supplies is the
\* board's lists as a successful updateListPositions with that sequence
\* left them, in memory and in the database
RepeatsReorder(s) ==
  /\ ops[s].kind = "updateListPositions" /\ InFlight(s) /\ ops[s].stage = 1
  /\ getBoardById(ops[s].bid) > 0
  /\ ops[s].items = ListsOf(boards, ops[s].bid)
  /\ \A i \in DOMAIN ops[s].items : ops[s].items[i].position = i - 1
  /\ RowsReordered(ops[s].bid, ops[s].items)

\* C15: a successful upsert of updateListPositions leaves in the rows of the
\* supplied lists their index in the sequence (the memory side is C4); and
\* a second updateListPositions with the same sequence, called on that
\* outcome, changes neither the lists in memory nor any row of lists.
C15_ReorderIdempotent ==
  [][\A s \in Slots :
       /\ (/\ ops[s].kind = "updateListPositions" /\ ops[s].stage = 1
           /\ ops[s].pc = "sent" /\ ops'[s].pc = "back" /\ ops'[s].ok)
            => RowsReordered(ops[s].bid, ops[s].items)'
       /\ RepeatsReorder(s)
            => /\ ListsOf(boards', ops[s].bid) = ListsOf(boards, ops[s].bid)
               /\ dbLists' = dbLists]_vars

\* the upsert of a repeated reorder of two lists, which an earlier reorder
\* had swapped, has succeeded
C15_Witness ==
  \E s \in Slots :
    /\ RepeatsReorder(s) /\ ops[s].pc = "back" /\ ops[s].ok
    /\ Len(ops[s].items) = 2
    /\ ops[s].items[1].id > ops[s].items[2].id


\* A step of handleFileSelected: importBoards has returned a result, and the
\* step is not one that only moves the clock or closes the result.
Imports ==
  /\ importResult' # JNull
  /\ <<boards, importResult, localStorage, fileContent>>'
       # <<boards, importResult, localStorage, fileContent>>

RECURSIVE Flatten(_)
Flatten(seqs) == IF seqs = <<>> THEN <<>> ELSE Head(seqs) \o Flatten(Tail(seqs))

\* the ids of the boards, of their lists and of their cards, one entry each
LocalIds(bs) ==
  [b \in DOMAIN bs |-> bs[b].id]
  \o Flatten([b \in DOMAIN bs |-> [l \in DOMAIN bs[b].lists |-> bs[b].lists[l].id]])
  \o Flatten([b \in DOMAIN bs |->
                Flatten([l \in DOMAIN bs[b].lists |->
                           [c \in DOMAIN bs[b].lists[l].cards |->
                              bs[b].lists[l].cards[c].id]])])

\* C16: every id importBoards assigns, to a board, a list or a card, differs
\* from every id the collection already held and from every other id of the
\* same import, so that no two boards share an id.
C16_ImportedIdsUnique ==
  \A i \in DOMAIN LocalIds(boards) : \A j \in DOMAIN LocalIds(boards) :
    i # j => LocalIds(boards)[i] # LocalIds(boards)[j]

\* C17: an import that imports at least one board sets "bankan-boards"
\* exactly once, to the whole updated collection (the old boards followed by
\* the imported ones); an import that imports none writes nothing.
C17_ImportSavesOnce ==
  [][Imports =>
       IF importResult'.imported > 0
       THEN /\ localStorage'.writes = localStorage.writes + 1
            /\ localStorage'.items["bankan-boards"] = JSONstringify(boards')
            /\ Len(boards') = Len(boards) + importResult'.imported
            /\ SubSeq(boards', 1, Len(boards)) = boards
       ELSE /\ localStorage' = localStorage
            /\ boards' = boards]_vars

\* two boards imported at once into a collection that held one, saved in the
\* second write
C17_Witness ==
  /\ importResult # JNull
  /\ importResult.imported = 2
  /\ Len(boards) = 3
  /\ localStorage.writes = 2
  /\ localStorage.items["bankan-boards"] = JSONstringify(boards)

\* C18: on a text that is no JSON importBoards returns imported 0, skipped 0
\* and exactly one error, leaves the collection as it was and writes nothing.
C18_UnparsableFile ==
  [][(Imports /\ ~JSONparse(fileContent').ok) =>
       /\ importResult'.imported = 0
       /\ importResult'.skipped = 0
       /\ Len(importResult'.errors) = 1
       /\ boards' = boards
       /\ localStorage' = localStorage]_vars

\* a text that is no JSON, imported into a collection that holds a board
C18_Witness ==
  /\ importResult # JNull
  /\ fileContent # <<>>
  /\ ~JSONparse(fileContent).ok
  /\ Len(importResult.errors) = 1
  /\ boards # <<>>

\* a candidate that is not an object, or has no non-empty string as title,
\* or no array as lists
Invalid(c) ==
  IF c.t # "object" THEN TRUE
  ELSE IF "title" \notin DOMAIN c.v THEN TRUE
  ELSE IF c.v.title.t # "string" THEN TRUE
  ELSE IF c.v.title.v = "" THEN TRUE
  ELSE IF "lists" \notin DOMAIN c.v THEN TRUE
  ELSE c.v.lists.t # "array"

\* the places 1..Len(cands), in order, of the invalid candidates
InvalidPlaces(cands) ==
  SelectSeq([i \in DOMAIN cands |-> i], LAMBDA i : Invalid(cands[i]))

\* C19: of the candidates of a parsed file, each invalid one, at index i from
\* 0, adds one to skipped and one error that starts with "Board i+1", in the
\* order of the input, and adds no board; the valid ones are imported, and
\* imported + skipped is the number of candidates.
C19_InvalidBoardsSkipped ==
  [][(Imports /\ JSONparse(fileContent').ok) =>
       LET cands == Candidates(fileContent')
           places == InvalidPlaces(cands)
           result == importResult'
       IN /\ result.skipped = Len(places)
          /\ result.imported + result.skipped = Len(cands)
          /\ Len(result.errors) = Len(places)
          /\ \A k \in DOMAIN places :
               /\ result.errors[k][1] = "Board "
               /\ result.errors[k][2] = places[k]
          /\ Len(boards') = Len(boards) + Len(cands) - Len(places)]_vars

\* a valid board followed by an invalid one: "Board 2" is the one error
C19_Witness ==
  /\ importResult # JNull
  /\ importResult.imported = 1
  /\ importResult.skipped = 1
  /\ Len(importResult.errors) = 1
  /\ importResult.errors[1][2] = 2
  /\ Len(Candidates(fileContent)) = 2

\* a list or a card with a non-empty string as title
HasTitle(x) ==
  IF x.t # "object" THEN FALSE
  ELSE IF "title" \notin DOMAIN x.v THEN FALSE
  ELSE IF x.v.title.t # "string" THEN FALSE
  ELSE x.v.title.v # ""

\* the cards a list of a file is to give: those with a title, in order, the
\* description a string
ExpectedCards(list) ==
  IF "cards" \in DOMAIN list.v /\ list.v.cards.t = "array"
  THEN LET kept == SelectSeq(list.v.cards.v, HasTitle)
       IN [k \in DOMAIN kept |->
             [title |-> kept[k].v.title.v,
              description |->
                IF "description" \in DOMAIN kept[k].v
                   /\ kept[k].v.description.t = "string"
                THEN kept[k].v.description ELSE JStr("")]]
  ELSE <<>>

ExpectedLists(c) ==
  LET kept == SelectSeq(c.v.lists.v, HasTitle)
  IN [k \in DOMAIN kept |->
        [title |-> kept[k].v.title.v, cards |-> ExpectedCards(kept[k])]]

\* a board of the collection without its ids
Shape(board) ==
  [l \in DOMAIN board.lists |->
     [title |-> board.lists[l].title,
      cards |-> [c \in DOMAIN board.lists[l].cards |->
                   [title |-> board.lists[l].cards[c].title,
                    description |-> board.lists[l].cards[c].description]]]]

\* C20: in a valid board a list or a card without a non-empty string as
\* title is dropped and the others keep their order, and a card whose
\* description is absent or no string gets the empty string as description;
\* none of this counts as skipped or as an error.
C20_ListsAndCardsFiltered ==
  [][(Imports /\ JSONparse(fileContent').ok) =>
       LET cands == Candidates(fileContent')
           valid == SelectSeq(cands, LAMBDA c : ~Invalid(c))
       IN /\ Len(boards') = Len(boards) + Len(valid)
          /\ \A k \in DOMAIN valid :
               Shape(boards'[Len(boards) + k]) = ExpectedLists(valid[k])
          /\ importResult'.skipped = Len(cands) - Len(valid)
          /\ Len(importResult'.errors) = Len(cands) - Len(valid)]_vars

\* C23: moveCard to another list changes, in the database, no row but the
\* row of the moved card; and once the call has refetched the board, every
\* other card of a list other than the destination has in memory the
\* position of its row, the one it had before the call: the source list is
\* not recompacted.
C23_MoveLeavesSourceAlone ==
  [][\A s \in Slots :
       /\ (Waiting(s, "updateCardList") /\ ops'[s].pc = "back" /\ ops'[s].ok)
            => /\ dbLists' = dbLists
               /\ DOMAIN dbCards' = DOMAIN dbCards
               /\ \A c \in DOMAIN dbCards :
                    c # ops[s].cid => dbCards'[c] = dbCards[c]
       /\ (ops[s].kind = "moveCard" /\ ops[s].stage = 2 /\ ops[s].pc = "back"
           /\ ops[s].ok /\ ops'[s].pc = "done")
            => \A l \in Ids(ListsOf(boards', ops[s].bid)) \ {ops[s].lid} :
                 \A i \in DOMAIN CardsIn(boards', ops[s].bid, l) :
                   LET card == CardsIn(boards', ops[s].bid, l)[i]
                   IN card.id # ops[s].cid =>
                        card.position = dbCards[card.id].position]_vars

\* moveCard has taken the first of two cards to another list: the card that
\* stays keeps position 1
C23_Witness ==
  \E s \in Slots : \E l \in Ids(ListsOf(boards, 1)) :
    /\ ops[s].kind = "moveCard" /\ ops[s].pc = "done" /\ ops[s].dirty
    /\ Len(CardsIn(boards, 1, l)) = 1
    /\ CardsIn(boards, 1, l)[1].position = 1
    /\ \E l2 \in Ids(ListsOf(boards, 1)) \ {l} : Len(CardsIn(boards, 1, l2)) = 1

\* the lists of board b that hold card c in memory
ListsHolding(b, c) == {l \in Ids(ListsOf(boards, b)) : c \in Ids(CardsIn(boards, b, l))}

\* C28: once the updateCardPositions call that ends a drag has completed,
\* every request served without error, each card of the board is in memory
\* in exactly one list, the list its row records.
C28_DragAgrees ==
  \A s \in Slots :
    (ops[s].kind = "updateCardPositions" /\ ops[s].pc = "done") =>
      \A b \in Ids(boards), c \in DOMAIN dbCards :
        dbCards[c].list_id \in Ids(ListsOf(boards, b)) =>
          ListsHolding(b, c) = {dbCards[c].list_id}

\* C22: also when two addList or two addCard calls overlap, no two list rows
\* of a board and no two card rows of a list have the same position.
C22_PositionsUnique ==
  /\ \A x, y \in DOMAIN dbLists :
       (x # y /\ dbLists[x].board_id = dbLists[y].board_id)
         => dbLists[x].position # dbLists[y].position
  /\ \A x, y \in DOMAIN dbCards :
       (x # y /\ dbCards[x].list_id = dbCards[y].list_id)
         => dbCards[x].position # dbCards[y].position

\* the positions of the elements of seq never decrease from one to the next
NonDecreasing(seq) ==
  \A i \in DOMAIN seq : i > 1 => seq[i - 1].position <= seq[i].position

\* C24: the lists of every board in memory, and the cards of every list, are
\* in non-decreasing order of position.
C24_SortedInMemory ==
  \A i \in DOMAIN boards :
    /\ NonDecreasing(boards[i].lists)
    /\ \A j \in DOMAIN boards[i].lists : NonDecreasing(boards[i].lists[j].cards)

\* C26: boards holds at most one board with a given id, however createBoard,
\* fetchBoards and fetchBoardById overlap.
C26_OneBoardPerId ==
  \A i, j \in DOMAIN boards : boards[i].id = boards[j].id => i = j

\* this step emits "rename" for board b: updateBoardTitle is called
EmitsRename(b) ==
  \E s \in Slots : /\ ops'[s] # ops[s]
                   /\ ops'[s].kind = "updateBoardTitle" /\ ops'[s].pc = "sent"
                   /\ ops'[s].bid = b

\* C25: Esc ends the editing session with no rename emitted and the title as
\* it was; until the next session starts no rename is emitted, a blur that
\* follows included; and in a session, the next one too, shouldSaveOnBlur is
\* true and a blur emits the rename of a title that is not blank.
C25_CancelledSessionEmitsNothing ==
  [][\A b \in 1..MaxBoards :
       /\ (isEditing[b] /\ ~isEditing'[b] /\ ~shouldSaveOnBlur'[b])
            => (ops' = ops /\ boards' = boards /\ dbBoards' = dbBoards)
       /\ (~shouldSaveOnBlur[b] /\ ~isEditing'[b]) => ~EmitsRename(b)
       /\ isEditing'[b] => shouldSaveOnBlur'[b]
       /\ (isEditing[b] /\ focused[b] /\ ~focused'[b]
           /\ Trim(editedTitle[b]) # <<>>) => EmitsRename(b)]_vars

\* an edit was cancelled and the input has lost the focus since
C25_Witness ==
  \E b \in 1..MaxBoards :
    /\ ~shouldSaveOnBlur[b] /\ ~isEditing[b] /\ ~focused[b]
    /\ getBoardById(b) > 0

\* the boards fetchBoardById would build for board b from the rows as they are
Rebuilt(b) ==
  LET lists == {l \in ListRows : l.board_id = b}
      cards == {c \in CardRows : c.list_id \in {l.id : l \in lists}}
  IN transformBoard(CHOOSE row \in BoardRows : row.id = b, lists, cards)

\* C29: when no call is in flight and every call so far has succeeded, each
\* board in memory has the lists and the cards, in the order and with the
\* positions, of a board fetchBoardById would build from the rows.
C29_MemoryIsWhatFetchRebuilds ==
  Free(1) =>
    \A i \in DOMAIN boards :
      boards[i].id \in DOMAIN dbBoards =>
        \E board \in Rebuilt(boards[i].id) : board.lists = boards[i].lists

\* C27: currentBoardId is null or the id of a board of the collection, in
\* the storage-only store also after the page was loaded again.
C27_CurrentBoardIsPresent ==
  currentBoardId = NoId \/ getBoardById(currentBoardId) > 0

C21_ExportImportRoundTrip ==
  [][\A b \in DOMAIN boards :
       (importResult = JNull /\ importResult' # JNull
        /\ fileContent' = <<BoardToJSON(boards[b])>>) =>
         /\ importResult'.imported = 1
         /\ Len(boards') = Len(boards) + 1
         /\ boards'[Len(boards')].title = boards[b].title
         /\ Shape(boards'[Len(boards')]) = Shape(boards[b])
         /\ Range(LocalIds(<<boards'[Len(boards')]>>))
              \cap Range(LocalIds(<<boards[b]>>)) = {}]_vars

====
